---- MODULE Spec2Model ----
(***************************************************************************)
(* Model of the fallout2-sdk agent bridge: the file transport of command   *)
(* batches and state snapshots, the command dispatcher, and the deferred   *)
(* execution queues (movement waypoints, pending attacks).                 *)
(*                                                                         *)
(* Sources: src/src/agent_commands.cc (processCommands, handleMoveTo,      *)
(* agentProcessQueuedMovement, handleAttack, processPendingAttacks),       *)
(* src/src/agent_state.cc (writeState) and src/src/agent_bridge.cc         *)
(* (agentBridgeTick, agentBridgeInit and the earlier processCommands).     *)
(***************************************************************************)
EXTENDS Integers, Sequences, FiniteSets, TLC

\* ------------------------------------------------------------------ bounds
MaxBatches == 2          \* command batches the agent publishes in one run
MaxTick == 3             \* calls of agentBridgeTick in one process lifetime
MaxCmdsPerTick == 1      \* commands one tick hands to the movement or attack handler
MaxMoveTicks == 2        \* ticks of a run with movement commands
MaxAtkTicks == 3         \* ticks of a run with attack commands
MaxRestarts == 1         \* process stops followed by a fresh agentBridgeInit
DocChunks == 2           \* pieces in which the bytes of a snapshot reach the disk

\* ------------------------------------------------------------- value sets
NoType == "<no type>"    \* an array element without a string "type"
NoBody == [kind |-> "absent", cmds |-> <<>>]
NoFile == [id |-> 0, body |-> NoBody]      \* kCmdPath names nothing
NoContent == NoFile                        \* processCommands holds no bytes
NoIno == 0                                 \* a state path that names nothing

KnownTypes == {"set_name", "set_status"}

\* The bytes of a command file, by what json::parse and the "commands" test
\* make of them; a parsed array is given by the "type" of its elements.
Batches ==
    { <<>>,
      <<"set_status", "set_name">>,
      <<"bogus", "set_status">>,
      <<NoType, "set_status">>,
      <<"set_name", "set_name">> }

Bodies ==
    {[kind |-> "malformed", cmds |-> <<>>], [kind |-> "no_commands", cmds |-> <<>>]}
    \cup {[kind |-> "ok", cmds |-> c] : c \in Batches}


VARIABLES
    \* --- command channel and the bridge's position in agentBridgeTick
    cmdFile,        \* what kCmdPath names: NoFile or [id, body]
    agentNext,      \* id of the next batch the agent publishes
    pc,             \* position of the bridge inside agentBridgeTick
    content,        \* the bytes processCommands holds in memory
    cmdIdx,         \* position of the dispatch loop in doc["commands"]
    gAgentTick,
    restarts,
    \* --- dispatch state
    gCommandFailureCounts,
    gAgentStatusOverlayActive,
    gAgentLastCommandDebug,
    tickLog,        \* history: <<index, type, status>> per handler call of the current tick
    consumed,       \* history: ids of the batches whose bytes were read
    replayed,       \* history: some batch was read a second time
    batchDropped,   \* history: processCommands of the current tick returned at the parse
    \* --- state channel
    paths,          \* state channel paths -> the inode each names, or NoIno
    inode,          \* inode -> [doc, written] (bytes on disk)
    wsDoc,          \* the document writeState holds in memory
    readerIno,      \* inode an external reader holds open, or NoIno
    readerSaw,      \* history: the reader got bytes of an incomplete document
    \* --- engine state the bridge reads (collaborators)
    dudeElevation,  \* gDude->elevation
    curMap,         \* mapGetCurrentMap()
    inCombat,       \* isInCombat()
    animBusy,       \* animationIsBusy(gDude)
    \* --- movement waypoint queue
    gMoveWaypoints,
    gMoveWaypointCount,
    gMoveWaypointIndex,
    gMoveIsRunning,
    gMoveElevation,
    gMoveMapIndex,
    \* --- history of the last operation
    lastOp,         \* the operation that ran last
    lastCmd,        \* inputs of the last move_to/run_to handled
    lastStatus,     \* AgentCommandStatus the last handler returned
    issued,         \* moves the last operation registered with the engine
    svcOutcome,     \* how the last agentProcessQueuedMovement call ended
    \* --- pending attack queue and the combat state it reads
    gPendingAttacks,
    ap,             \* gDude->data.critter.combat.ap
    objState,       \* per object id: "alive", "dead" or "gone" (not on the map)
    phase,          \* position of the host loop: "commands" (inside a tick) or "engine"
    lastAtk,        \* history: inputs of the last attack command handled
    executed,       \* history: _combat_attack calls of the last operation
    atkOutcome,     \* history: how the last processPendingAttacks call ended
    queuedExecThisTick, \* history: queued attacks executed since the tick began
    clearedSince,   \* history: the queue was discarded and no attack command came since
    \* --- what the item, loot, teleport and world map handlers read and change
    world,          \* gAgentTestMode and the engine state behind those handlers
    lastCall,       \* history: the handler call whose result is not yet logged
    \* --- the object enumeration of the state writer
    gLastObjectEnumTick,
    gCachedObjects,
    lastWrite,      \* history: what the last writeState did about the map section
    enumHist,       \* history: the last enumeration and the refresh signals since
    \* --- deferred dialogue select
    gAgentPendingDialogueSelect,   \* index to select, or -1
    gAgentDialogueSelectTick,      \* tick when highlight was shown
    dialogue,       \* _gdialogActive(), the highlighted option, position in the tick
    selection,      \* history: the last accepted select_dialogue and what became of it
    \* --- context detection and the snapshot
    flags,          \* what detectContext reads, and the other mode flags of the engine
    detected,       \* history: the last result of detectContext and the flags it saw
    snapshot        \* history: what the last writeState put into the document

cmdVars == <<cmdFile, agentNext, pc, content, cmdIdx, gAgentTick, restarts>>
dispatchVars == <<gCommandFailureCounts, gAgentStatusOverlayActive,
                  gAgentLastCommandDebug, tickLog>>
histVars == <<consumed, replayed, batchDropped>>
fsVars == <<paths, inode, wsDoc>>
readerVars == <<readerIno, readerSaw>>
engineVars == <<dudeElevation, curMap, inCombat, animBusy>>
moveVars == <<gMoveWaypoints, gMoveWaypointCount, gMoveWaypointIndex,
              gMoveIsRunning, gMoveElevation, gMoveMapIndex>>
moveHist == <<lastOp, lastCmd, lastStatus, issued, svcOutcome>>
atkVars == <<gPendingAttacks, ap, objState, phase>>
atkHist == <<lastAtk, executed, atkOutcome, queuedExecThisTick, clearedSince>>
handlerVars == <<world, lastCall>>
writerVars == <<gLastObjectEnumTick, gCachedObjects, lastWrite, enumHist>>
dlgVars == <<gAgentPendingDialogueSelect, gAgentDialogueSelectTick, dialogue, selection>>
ctxVars == <<flags, detected, snapshot>>

Inodes == 1..3
NoDoc == [tick |-> 0, debug |-> ""]

\* ------------------------------------------------- command channel (agent)

\* The agent publishes a batch: it writes agent_cmd.tmp and renames it over
\* kCmdPath, so the path changes from one complete file to another in one step.
AgentWrite ==
    /\ agentNext <= MaxBatches
    /\ \E b \in Bodies : cmdFile' = [id |-> agentNext, body |-> b]
    /\ agentNext' = agentNext + 1
    /\ UNCHANGED <<pc, content, cmdIdx, gAgentTick, restarts>>
    /\ UNCHANGED <<dispatchVars, histVars, fsVars, readerVars, engineVars, moveVars, moveHist, atkVars, atkHist, handlerVars, writerVars, dlgVars, ctxVars>>

\* --------------------------------------------------------- processCommands

JsonParses(body) == body.kind # "malformed"
AnyDocHasCommands(body) == TRUE
HasCommandsArray(body) == body.kind = "ok"

\* agentBridgeTick: gAgentTick++, then processCommands finds no file at
\* kCmdPath (fopen returns nullptr) and returns; writeState is next.
TickNoFile ==
    /\ pc = "idle"
    /\ gAgentTick < MaxTick
    /\ cmdFile = NoFile
    /\ gAgentTick' = gAgentTick + 1
    /\ pc' = "ws_open"
    /\ tickLog' = <<>>
    /\ UNCHANGED <<cmdFile, agentNext, content, cmdIdx, restarts>>
    /\ batchDropped' = FALSE
    /\ UNCHANGED <<gCommandFailureCounts, gAgentStatusOverlayActive, gAgentLastCommandDebug>>
    /\ UNCHANGED <<consumed, replayed, fsVars, readerVars, engineVars, moveVars, moveHist, atkVars, atkHist, handlerVars, writerVars, dlgVars, ctxVars>>

\* agentBridgeTick: gAgentTick++, then processCommands opens kCmdPath and
\* reads all of its bytes into memory (fopen, fread, fclose).
TickRead ==
    /\ pc = "idle"
    /\ gAgentTick < MaxTick
    /\ cmdFile # NoFile
    /\ gAgentTick' = gAgentTick + 1
    /\ content' = cmdFile
    /\ pc' = "read"
    /\ tickLog' = <<>>
    /\ consumed' = consumed \cup {cmdFile.id}
    /\ replayed' = (replayed \/ cmdFile.id \in consumed)
    /\ batchDropped' = FALSE
    /\ UNCHANGED <<cmdFile, agentNext, cmdIdx, restarts>>
    /\ UNCHANGED <<gCommandFailureCounts, gAgentStatusOverlayActive, gAgentLastCommandDebug>>
    /\ UNCHANGED <<fsVars, readerVars, engineVars, moveVars, moveHist, atkVars, atkHist, handlerVars, writerVars, dlgVars, ctxVars>>

\* remove(kCmdPath): whatever the path names now is unlinked.
RemoveKeepsFile == cmdFile' = cmdFile
RemoveCmdFile == cmdFile' = NoFile

DeleteCmd ==
    /\ pc = "read"
    /\ RemoveCmdFile
    /\ pc' = "removed"
    /\ UNCHANGED <<agentNext, content, cmdIdx, gAgentTick, restarts>>
    /\ UNCHANGED <<dispatchVars, histVars, fsVars, readerVars, engineVars, moveVars, moveHist, atkVars, atkHist, handlerVars, writerVars, dlgVars, ctxVars>>

\* json::parse (throws on malformed bytes: caught, return) and the test for
\* an array field "commands" (return when absent).
ParseAccepts(body) == JsonParses(body) /\ HasCommandsArray(body)

ParseCmd ==
    /\ pc = "removed"
    /\ IF ParseAccepts(content.body)
       THEN /\ pc' = "dispatch"
            /\ cmdIdx' = 1
            /\ content' = content
       ELSE /\ pc' = "ws_open"
            /\ cmdIdx' = cmdIdx
            /\ content' = NoContent
    /\ batchDropped' = ~ParseAccepts(content.body)
    /\ UNCHANGED <<cmdFile, agentNext, gAgentTick, restarts>>
    /\ UNCHANGED <<dispatchVars, consumed, replayed, fsVars, readerVars, engineVars, moveVars, moveHist, atkVars, atkHist, handlerVars, writerVars, dlgVars, ctxVars>>

\* ------------------------------------------------ movement waypoint queue

kMaxSegment == 16        \* longest path handed to the engine in one move
kMaxWaypoints == 39      \* the build loop stops at this many waypoints
kWaypointSlots == 40     \* int gMoveWaypoints[40]

Elevations == 0..1
Maps == 0..1
DestTiles == {20100}
PathLens == {0, 15, 17, 33, 625}    \* results of _make_path

\* The queue as one value: the six globals of the waypoint queue.
MoveQ ==
    [wp |-> gMoveWaypoints, count |-> gMoveWaypointCount, index |-> gMoveWaypointIndex,
     running |-> gMoveIsRunning, elev |-> gMoveElevation, map |-> gMoveMapIndex]

SetMoveQ(m) ==
    /\ gMoveWaypoints' = m.wp
    /\ gMoveWaypointCount' = m.count
    /\ gMoveWaypointIndex' = m.index
    /\ gMoveIsRunning' = m.running
    /\ gMoveElevation' = m.elev
    /\ gMoveMapIndex' = m.map

WaypointsRemaining(m) ==
    IF m.count = 0 \/ m.index >= m.count THEN 0 ELSE m.count - m.index

agentGetMovementWaypointsRemaining == WaypointsRemaining(MoveQ)

\* Abort tests of agentProcessQueuedMovement: the map or the elevation is no
\* longer the one recorded with the queue, or combat has started.
ElevationChanged(m, elevNow, mapNow) == elevNow # m.elev
MapOrElevationChanged(m, elevNow, mapNow) == elevNow # m.elev \/ mapNow # m.map

\* A queue position that is not advanced.
StayAtWaypoint(m) == m

\* A queue position that passes over a waypoint.
SkipWaypoint(m) == [m EXCEPT !.index = @ + 2]

\* int targetTile = gMoveWaypoints[gMoveWaypointIndex]; gMoveWaypointIndex++;
NextWaypoint(m) == [m EXCEPT !.index = @ + 1]

\* agentProcessQueuedMovement on queue m. regBegin and regMove are the results
\* of reg_anim_begin and animationRegister{Move,Run}ToTile (TRUE: returned 0).
ProcessQueued(m, elevNow, mapNow, combat, busy, regBegin, regMove) ==
    IF m.count = 0 \/ m.index >= m.count
    THEN [m |-> m, issued |-> <<>>, outcome |-> "nothing_queued"]
    ELSE IF MapOrElevationChanged(m, elevNow, mapNow)
    THEN [m |-> [m EXCEPT !.count = 0], issued |-> <<>>, outcome |-> "aborted_map"]
    ELSE IF combat
    THEN [m |-> [m EXCEPT !.count = 0], issued |-> <<>>, outcome |-> "aborted_combat"]
    ELSE IF busy
    THEN [m |-> m, issued |-> <<>>, outcome |-> "busy"]
    ELSE LET targetTile == m.wp[m.index]
             m1 == NextWaypoint(m)
         IN  IF ~regBegin
             THEN [m |-> [m1 EXCEPT !.count = 0], issued |-> <<>>, outcome |-> "reg_begin_failed"]
             ELSE IF ~regMove
             THEN [m |-> [m1 EXCEPT !.count = 0], issued |-> <<>>, outcome |-> "register_failed"]
             ELSE [m |-> IF m1.index >= m1.count THEN [m1 EXCEPT !.count = 0] ELSE m1,
                   issued |-> << [tile |-> targetTile, run |-> m.running] >>,
                   outcome |-> "issued"]

\* tileGetTileInDirection(currentTile, rotations[i], 1) applied n times along
\* the path _make_path found: the path is a corridor of consecutive tiles that
\* ends at the destination.
TileInDirection(tile, n) == tile + n

\* The iteration i (0-based) at or after iteration `from` in which the build
\* loop stores a waypoint: (i + 1) % kMaxSegment == 0 || i == pathLen - 1.
NextStore(from, pathLen) ==
    LET boundary == ((from \div kMaxSegment) + 1) * kMaxSegment - 1
    IN  IF boundary < pathLen - 1 THEN boundary ELSE pathLen - 1

\* The build loop of handleMoveTo:
\*   for (i = 0; i < pathLen && waypointCount < 39; i++) {
\*       currentTile = tileGetTileInDirection(currentTile, rotations[i], 1);
\*       if ((i + 1) % kMaxSegment == 0 || i == pathLen - 1)
\*           gMoveWaypoints[waypointCount++] = currentTile; }
\* taken from one storing iteration to the next (the iterations in between
\* only advance currentTile). currentTile is the tile before iteration i.
\* A loop condition without the waypoint limit.
LoopToPathEnd(i, pathLen, waypointCount) == i < pathLen

\* i < pathLen && waypointCount < 39
LoopContinues(i, pathLen, waypointCount) == i < pathLen /\ waypointCount < kMaxWaypoints

RECURSIVE WaypointLoop(_, _, _, _, _)
WaypointLoop(i, pathLen, currentTile, wp, waypointCount) ==
    IF ~LoopContinues(i, pathLen, waypointCount)
    THEN [wp |-> wp, count |-> waypointCount]
    ELSE LET j == NextStore(i, pathLen)
             tile == TileInDirection(currentTile, j - i + 1)
         IN  WaypointLoop(j + 1, pathLen, tile, [wp EXCEPT ![waypointCount] = tile],
                          waypointCount + 1)

\* gMoveWaypointCount = 0: a queue in flight is cancelled.
KeepQueue(m) == m
CancelQueue(m) == [m EXCEPT !.count = 0]

\* handleMoveTo(cmd, run) on queue m. hasTile: cmd has an integer "tile".
\* pathLen is what _make_path(gDude, gDude->tile, tile, rotations, 0) returns;
\* the actor stands pathLen steps before the destination on that path.
MoveTo(m, hasTile, tile, run, elevNow, mapNow, combat, busy, pathLen, regBegin, regMove) ==
    IF ~hasTile
    THEN [status |-> "BadArgs", m |-> m, issued |-> <<>>, created |-> 0,
          debug |-> "move: missing 'tile'"]
    ELSE IF combat
    THEN [status |-> "Blocked", m |-> m, issued |-> <<>>, created |-> 0,
          debug |-> "move: rejected (in combat)"]
    ELSE LET m0 == CancelQueue(m)
         IN  IF busy
             THEN [status |-> "Blocked", m |-> m0, issued |-> <<>>, created |-> 0,
                   debug |-> "move: skipped (animation busy)"]
             ELSE IF pathLen = 0
             THEN [status |-> "Failed", m |-> m0, issued |-> <<>>, created |-> 0,
                   debug |-> "move: no path"]
             ELSE IF pathLen > kMaxSegment
             THEN LET built == WaypointLoop(0, pathLen, tile - pathLen, m0.wp, 0)
                      m1 == [wp |-> built.wp, count |-> built.count, index |-> 0,
                             running |-> run, elev |-> elevNow, map |-> mapNow]
                      first == ProcessQueued(m1, elevNow, mapNow, combat, busy,
                                             regBegin, regMove)
                  IN  [status |-> "Ok", m |-> first.m, issued |-> first.issued,
                       created |-> built.count, debug |-> "move: waypoints"]
             ELSE IF ~regBegin
             THEN [status |-> "Failed", m |-> m0, issued |-> <<>>, created |-> 0,
                   debug |-> "move: reg_anim_begin failed"]
             ELSE IF ~regMove
             THEN [status |-> "Failed", m |-> m0, issued |-> <<>>, created |-> 0,
                   debug |-> "move: register failed"]
             ELSE [status |-> "Ok", m |-> m0,
                   issued |-> << [tile |-> tile, run |-> run] >>, created |-> 0,
                   debug |-> "move: tile"]

NoCmd ==
    [hasTile |-> FALSE, tile |-> 0, run |-> FALSE, pathLen |-> 0, combat |-> FALSE,
     busy |-> FALSE, regOk |-> FALSE, created |-> 0]

\* A move_to (run = FALSE) or run_to (run = TRUE) command reaches its handler.
\* A move the engine accepted starts an animation of gDude (reg_anim_end).
\* Without a "tile" nothing else is read, and the result of the register call
\* is not read when reg_anim_begin failed.
HandleMoveTo(run, tiles, lens) ==
    \E hasTile \in BOOLEAN, tile \in tiles, pathLen \in lens,
       regBegin \in BOOLEAN, regMove \in BOOLEAN :
        /\ hasTile \/ (pathLen = 0 /\ regBegin /\ regMove)
        /\ regBegin \/ regMove
        /\ \E r \in {MoveTo(MoveQ, hasTile, tile, run, dudeElevation, curMap, inCombat,
                             animBusy, pathLen, regBegin, regMove)} :
            /\ SetMoveQ(r.m)
            /\ animBusy' = (animBusy \/ r.issued # <<>>)
            /\ lastOp' = "move_to"
            /\ lastCmd' = [hasTile |-> hasTile, tile |-> tile, run |-> run,
                           pathLen |-> pathLen, combat |-> inCombat, busy |-> animBusy,
                           regOk |-> (regBegin /\ regMove), created |-> r.created]
            /\ lastStatus' = r.status
            /\ issued' = r.issued
            /\ gAgentLastCommandDebug' = r.debug
            /\ svcOutcome' = "none"
            /\ UNCHANGED <<dudeElevation, curMap, inCombat>>

\* The tick services the queue: one call of agentProcessQueuedMovement.
ServiceMovement ==
    \E regBegin \in BOOLEAN, regMove \in BOOLEAN :
        /\ regBegin \/ regMove
        /\ \E r \in {ProcessQueued(MoveQ, dudeElevation, curMap, inCombat, animBusy,
                                    regBegin, regMove)} :
            /\ SetMoveQ(r.m)
            /\ animBusy' = (animBusy \/ r.issued # <<>>)
            /\ lastOp' = "service_movement"
            /\ issued' = r.issued
            /\ svcOutcome' = r.outcome
            /\ lastCmd' = NoCmd
            /\ lastStatus' = "none"
            /\ UNCHANGED <<dudeElevation, curMap, inCombat>>

\* ------------------------------------------------------ command dispatch

\* An overlay that is left as it is.
KeepStatusOverlay(active) == active

\* agentHideStatusOverlay / agentShowStatusOverlay, as far as the flag goes.
HideStatusOverlay(active) == FALSE
ShowStatusOverlay(active) == TRUE

\* Which results count as failures for the per-type counters: the caller
\* errors, the transient rejections and the operational failures. An unknown
\* type accumulates no counter.
agentCommandStatusIsFailure(status) == status \in {"BadArgs", "Blocked", "Failed"}

\* The failure flag agentDebugLogCommand writes into the command-outcome
\* record: set for every result that did not apply the command.
agentDebugLogFailureFlag(status) == status \notin {"Ok", "NoOp"}

\* A counter map that resets every type on a non-failure result.
TrackResultResetAll(counts, type, status) ==
    IF status \in {"Ok", "NoOp", "UnknownCommand"}
    THEN [t \in {} |-> 0]
    ELSE [t \in DOMAIN counts \cup {type} |->
            IF t = type THEN (IF type \in DOMAIN counts THEN counts[type] ELSE 0) + 1
            ELSE counts[t]]

\* trackAndLogCommandResult on the counter map (a std::map: absent keys are
\* created at 0 by operator[], and removed by erase).
TrackResult(counts, type, status) ==
    IF agentCommandStatusIsFailure(status)
    THEN [t \in DOMAIN counts \cup {type} |->
            IF t = type THEN (IF type \in DOMAIN counts THEN counts[type] ELSE 0) + 1
            ELSE counts[t]]
    ELSE [t \in DOMAIN counts \ {type} |-> counts[t]]

\* dispatchMappedCommand: the registry lookup. set_special, select_traits and
\* tag_skills are not registered; set_name and finish_character_creation are.
Registered(type) == type \in KnownTypes

\* Results of the handlers the batches of the model name: handleSetName and
\* handleSetStatusCommand return BadArgs (argument missing or malformed) or Ok.
HandlerResults(type) == {"BadArgs", "Ok"}

\* dispatchMappedCommand(type, cmd).
DispatchAsKnown(type) == HandlerResults(type)
DispatchResults(type) ==
    IF Registered(type) THEN HandlerResults(type) ELSE {"UnknownCommand"}

\* One iteration of the dispatch loop of processCommands (agent_commands.cc):
\* skip an element without a string "type"; otherwise auto-clear the status
\* overlay, run the handler, note an unknown type, track and log the result.
DispatchElement ==
    /\ pc = "dispatch"
    /\ cmdIdx <= Len(content.body.cmds)
    /\ LET type == content.body.cmds[cmdIdx]
           cleared == IF gAgentStatusOverlayActive /\ type \notin {"set_status", "clear_status"}
                      THEN HideStatusOverlay(gAgentStatusOverlayActive)
                      ELSE gAgentStatusOverlayActive
       IN  IF type = NoType
           THEN UNCHANGED dispatchVars
           ELSE \E status \in DispatchResults(type) :
                   /\ gAgentStatusOverlayActive' =
                         (IF type = "set_status" /\ status = "Ok"
                          THEN ShowStatusOverlay(cleared) ELSE cleared)
                   /\ gAgentLastCommandDebug' =
                         (IF status = "UnknownCommand" THEN "unknown_cmd"
                          ELSE IF type = "set_status"
                          THEN (IF status = "Ok" THEN "set_status: text"
                                ELSE "set_status: missing text")
                          ELSE gAgentLastCommandDebug)
                   /\ gCommandFailureCounts' = TrackResult(gCommandFailureCounts, type, status)
                   /\ tickLog' = Append(tickLog, <<cmdIdx, type, status>>)
    /\ cmdIdx' = cmdIdx + 1
    /\ UNCHANGED <<cmdFile, agentNext, pc, content, gAgentTick, restarts>>
    /\ UNCHANGED <<histVars, fsVars, readerVars, engineVars, moveVars, moveHist, atkVars, atkHist, handlerVars, writerVars, dlgVars, ctxVars>>

\* handleSetStatusCommand reads its argument with cmd.value("text", ""), which
\* throws json::type_error when "text" is present and not a string. Nothing
\* between the handler and the host loop catches: the exception leaves the
\* dispatch loop, processCommands and agentBridgeTick, so neither the rest of
\* the batch nor writeState runs, and the process ends in std::terminate.
\* (The overlay auto-clear that precedes dispatch skips set_status.)
DispatchThrows ==
    /\ pc = "dispatch"
    /\ cmdIdx <= Len(content.body.cmds)
    /\ content.body.cmds[cmdIdx] = "set_status"
    /\ pc' = "escaped"
    /\ UNCHANGED <<cmdFile, agentNext, content, cmdIdx, gAgentTick, restarts>>
    /\ UNCHANGED <<dispatchVars, histVars, fsVars, readerVars, engineVars, moveVars, moveHist, atkVars, atkHist, handlerVars, writerVars, dlgVars, ctxVars>>

\* The dispatch loop has run through the array: processCommands returns.
DispatchEnd ==
    /\ pc = "dispatch"
    /\ cmdIdx > Len(content.body.cmds)
    /\ pc' = "ws_open"
    /\ content' = NoContent
    /\ UNCHANGED <<cmdFile, agentNext, cmdIdx, gAgentTick, restarts>>
    /\ UNCHANGED <<dispatchVars, histVars, fsVars, readerVars, engineVars, moveVars, moveHist, atkVars, atkHist, handlerVars, writerVars, dlgVars, ctxVars>>

\* ---------------------------------------------------- pending attack queue

MaxAP == 2               \* action points of the actor in the model
MaxBacklog == 2          \* the agent sends an attack while at most this many are queued
ObjIds == 1..2
HitModes == {"punch"}
HitLocations == {"uncalled"}
CountArgs == {0, 1, 3, 11}     \* values of the "count" argument
kMaxAttackCount == 10    \* if (count > 10) count = 10

PendingAttack(targetId, hitMode, hitLocation) ==
    [targetId |-> targetId, hitMode |-> hitMode, hitLocation |-> hitLocation]

RECURSIVE Copies(_, _)
Copies(x, n) == IF n <= 0 THEN <<>> ELSE Append(Copies(x, n - 1), x)

getPendingAttackCount == Len(gPendingAttacks)

\* findObjectByUniqueId(id) != nullptr && !critterIsDead(target)
TargetFound(objs, id) == objs[id] # "gone"
TargetUsable(objs, id) == objs[id] = "alive"

\* A front entry that is left in the queue.
KeepBegin(q) == q

\* gPendingAttacks.front() and gPendingAttacks.erase(gPendingAttacks.begin())
BackOf(q) == q[Len(q)]
FrontOf(q) == Head(q)
EraseBegin(q) == Tail(q)

\* processPendingAttacks on queue q: what is left of the queue, the attack
\* handed to _combat_attack (if any) and the branch taken.
ProcessPending(q, combat, busy, apNow, objs) ==
    IF q = <<>>
    THEN [q |-> q, executed |-> <<>>, outcome |-> "empty"]
    ELSE IF ~combat
    THEN [q |-> <<>>, executed |-> <<>>, outcome |-> "cleared_combat_end"]
    ELSE IF busy
    THEN [q |-> q, executed |-> <<>>, outcome |-> "busy"]
    ELSE IF apNow <= 0
    THEN [q |-> <<>>, executed |-> <<>>, outcome |-> "cleared_no_ap"]
    ELSE LET atk == FrontOf(q)
             rest == EraseBegin(q)
         IN  IF ~TargetUsable(objs, atk.targetId)
             THEN [q |-> <<>>, executed |-> <<>>, outcome |-> "cleared_target"]
             ELSE [q |-> rest, executed |-> <<atk>>, outcome |-> "executed"]

\* The queue after _combat_attack returned for a queued attack: rc is only
\* written to the debug string.
RequeueFailed(rest, atk, rcOk) == IF rcOk THEN rest ELSE Append(rest, atk)
AfterQueuedAttack(rest, atk, rcOk) == rest

\* What _combat_attack leaves behind: with rc = 0 the attack animation of
\* gDude is running and action points were spent; otherwise nothing changed.
CombatAttackEffect(rcOk, apCost) ==
    /\ animBusy' = (animBusy \/ rcOk)
    /\ ap' = (IF rcOk THEN (IF ap > apCost THEN ap - apCost ELSE 0) ELSE ap)

\* if (count < 1) count = 1; if (count > 10) count = 10; (default 1)
ClampCount(hasCount, countArg) ==
    IF ~hasCount THEN 1
    ELSE IF countArg < 1 THEN 1
    ELSE IF countArg > kMaxAttackCount THEN kMaxAttackCount
    ELSE countArg

\* The queue after the bad-shot branch (return Failed, nothing pushed) and
\* after the busy branch (for (i = 0; i < count; i++) push_back).
QueueRejectedShot(q, atk, count) == q \o Copies(atk, count)
RejectedShot(q, atk, count) == q
QueueAllButFirst(q, atk, count) == q \o Copies(atk, count - 1)
QueueAll(q, atk, count) == q \o Copies(atk, count)

\* handleAttack on queue q. found: findObjectByUniqueId(targetId) != nullptr;
\* badShot: _combat_check_bad_shot(...) != COMBAT_BAD_SHOT_OK; rcOk: the
\* immediate _combat_attack returned 0.
Attack(q, hasTarget, atk, count, combat, busy, found, badShot, rcOk) ==
    IF ~hasTarget
    THEN [status |-> "BadArgs", q |-> q, executed |-> <<>>,
          debug |-> "attack: missing target_id"]
    ELSE IF ~combat
    THEN [status |-> "Blocked", q |-> q, executed |-> <<>>,
          debug |-> "attack: entering combat first"]
    ELSE IF ~found
    THEN [status |-> "Failed", q |-> q, executed |-> <<>>,
          debug |-> "attack: target not found"]
    ELSE IF badShot
    THEN [status |-> "Failed", q |-> RejectedShot(q, atk, count), executed |-> <<>>,
          debug |-> "attack: REJECTED"]
    ELSE IF busy
    THEN [status |-> "Blocked", q |-> QueueAll(q, atk, count), executed |-> <<>>,
          debug |-> "attack: queued (animation busy)"]
    ELSE [status |-> IF rcOk THEN "Ok" ELSE "Failed",
          q |-> q \o Copies(atk, count - 1), executed |-> <<atk>>,
          debug |-> "attack: target"]

NoAtk ==
    [count |-> 0, busy |-> FALSE, before |-> 0, hasTarget |-> FALSE, combat |-> FALSE,
     found |-> FALSE, badShot |-> FALSE]

\* An attack command reaches its handler. A dead target is a bad shot
\* (COMBAT_BAD_SHOT_ALREADY_DEAD), and so is an attack that costs more action
\* points than the actor has (COMBAT_BAD_SHOT_NOT_ENOUGH_AP). Arguments and
\* results that the handler does not read are not varied.
HandleAttack ==
    /\ Len(gPendingAttacks) <= MaxBacklog
    /\ \E hasTarget \in BOOLEAN, targetId \in ObjIds, hitMode \in HitModes,
          hitLocation \in HitLocations, hasCount \in BOOLEAN, countArg \in CountArgs,
          badShot \in BOOLEAN, rcOk \in BOOLEAN, apCost \in 1..MaxAP :
        /\ hasCount \/ countArg = 0
        /\ hasTarget \/ (targetId = 1 /\ ~hasCount /\ ~badShot)
        /\ ~badShot \/ ~hasCount
        /\ (hasTarget /\ ~badShot) \/ rcOk
        /\ rcOk \/ apCost = 1
        /\ (inCombat /\ ~animBusy /\ objState[targetId] # "gone") \/ (rcOk /\ apCost = 1)
        /\ objState[targetId] = "dead" => badShot
        /\ (hasTarget /\ inCombat /\ objState[targetId] # "gone" /\ ap < apCost) => badShot
        /\ \E count \in {ClampCount(hasCount, countArg)} :
           \E r \in {Attack(gPendingAttacks, hasTarget,
                            PendingAttack(targetId, hitMode, hitLocation), count,
                            inCombat, animBusy, objState[targetId] # "gone", badShot, rcOk)} :
            /\ gPendingAttacks' = r.q
            /\ IF r.executed # <<>>
               THEN CombatAttackEffect(rcOk, apCost)
               ELSE UNCHANGED <<animBusy, ap>>
            /\ lastOp' = "attack"
            /\ lastStatus' = r.status
            /\ lastAtk' = [count |-> count, busy |-> animBusy, before |-> Len(gPendingAttacks),
                            hasTarget |-> hasTarget, combat |-> inCombat,
                            found |-> (objState[targetId] # "gone"), badShot |-> badShot]
            /\ executed' = r.executed
            /\ gAgentLastCommandDebug' = r.debug
    /\ clearedSince' = FALSE
    /\ atkOutcome' = "none"
    /\ UNCHANGED <<dudeElevation, curMap, inCombat, objState, phase>>
    /\ UNCHANGED <<moveVars, lastCmd, issued, svcOutcome, queuedExecThisTick>>

\* One call of processPendingAttacks.
ServiceAttacks ==
    /\ \E rcOk \in BOOLEAN, apCost \in 1..MaxAP :
        /\ rcOk \/ apCost = 1
        /\ (gPendingAttacks # <<>> /\ inCombat /\ ~animBusy /\ ap > 0) \/ (rcOk /\ apCost = 1)
        /\ \E r \in {ProcessPending(gPendingAttacks, inCombat, animBusy, ap, objState)} :
            /\ IF r.executed # <<>>
               THEN /\ gPendingAttacks' = AfterQueuedAttack(r.q, r.executed[1], rcOk)
                    /\ CombatAttackEffect(rcOk, apCost)
                    /\ gAgentLastCommandDebug' = "attack(queued)"
               ELSE /\ gPendingAttacks' = r.q
                    /\ UNCHANGED <<animBusy, ap, gAgentLastCommandDebug>>
            /\ executed' = r.executed
            /\ atkOutcome' = r.outcome
            /\ queuedExecThisTick' = queuedExecThisTick + Len(r.executed)
            /\ clearedSince' = (clearedSince \/ (gPendingAttacks # <<>> /\ r.q = <<>>
                                                 /\ r.executed = <<>>))
    /\ lastOp' = "service_attacks"
    /\ lastAtk' = NoAtk
    /\ lastStatus' = "none"
    /\ UNCHANGED <<dudeElevation, curMap, inCombat, objState>>
    /\ UNCHANGED <<moveVars, lastCmd, issued, svcOutcome>>

\* -------------------------------------------------------------- writeState

kStatePath == "agent_state.json"
kStateTmpCanon == kStatePath          \* (a writer that writes the canonical path in place)
kStateTmpPath == "agent_state.tmp"
StatePaths == {"agent_state.json", "agent_state.tmp"}

Complete(file) == file.written = DocChunks

UnusedInode == CHOOSE i \in Inodes : i \notin {paths[p] : p \in StatePaths} \cup {readerIno}

\* A document that carries the tick before the current one.
StateDocumentOfLastTick(tick, debug) == [tick |-> tick - 1, debug |-> debug]

\* state["tick"] = gAgentTick; state["last_command_debug"] = gAgentLastCommandDebug.
StateDocument(tick, debug) == [tick |-> tick, debug |-> debug]

\* writeState builds the document and opens kStateTmpPath with "wb": a path
\* that names a file has that file truncated, otherwise a file is created.
WsOpen ==
    /\ pc = "ws_open"
    /\ LET doc == StateDocument(gAgentTick, gAgentLastCommandDebug)
           ino == IF paths[kStateTmpPath] = NoIno THEN UnusedInode ELSE paths[kStateTmpPath]
       IN  /\ wsDoc' = doc
           /\ paths' = [paths EXCEPT ![kStateTmpPath] = ino]
           /\ inode' = [inode EXCEPT ![ino] = [doc |-> doc, written |-> 0]]
    /\ pc' = "ws_write"
    /\ UNCHANGED <<cmdFile, agentNext, content, cmdIdx, gAgentTick, restarts>>
    /\ UNCHANGED <<dispatchVars, histVars, readerVars, engineVars, moveVars, moveHist, atkVars, atkHist, handlerVars, writerVars, dlgVars, ctxVars>>

\* fopen returned nullptr: writeState returns without touching the disk.
WsOpenFails ==
    /\ pc = "ws_open"
    /\ pc' = "idle"
    /\ UNCHANGED <<cmdFile, agentNext, content, cmdIdx, gAgentTick, restarts>>
    /\ UNCHANGED <<dispatchVars, histVars, fsVars, readerVars, engineVars, moveVars, moveHist, atkVars, atkHist, handlerVars, writerVars, dlgVars, ctxVars>>

\* fwrite ... fclose: the bytes of the document reach the file piece by piece.
WsWrite ==
    /\ pc = "ws_write"
    /\ ~Complete(inode[paths[kStateTmpPath]])
    /\ inode' = [inode EXCEPT ![paths[kStateTmpPath]].written = @ + 1]
    /\ UNCHANGED <<paths, wsDoc>>
    /\ UNCHANGED <<cmdVars, dispatchVars, histVars, readerVars, engineVars, moveVars, moveHist, atkVars, atkHist, handlerVars, writerVars, dlgVars, ctxVars>>

WsClose ==
    /\ pc = "ws_write"
    /\ Complete(inode[paths[kStateTmpPath]])
    /\ pc' = "ws_rename"
    /\ UNCHANGED <<cmdFile, agentNext, content, cmdIdx, gAgentTick, restarts>>
    /\ UNCHANGED <<dispatchVars, histVars, fsVars, readerVars, engineVars, moveVars, moveHist, atkVars, atkHist, handlerVars, writerVars, dlgVars, ctxVars>>

\* rename(kStateTmpPath, kStatePath): the canonical path names the temp file.
WsRename ==
    /\ pc = "ws_rename"
    /\ paths' = IF kStateTmpPath = kStatePath THEN paths
                ELSE [paths EXCEPT ![kStatePath] = paths[kStateTmpPath],
                                   ![kStateTmpPath] = NoIno]
    /\ pc' = "idle"
    /\ UNCHANGED <<inode, wsDoc>>
    /\ UNCHANGED <<cmdFile, agentNext, content, cmdIdx, gAgentTick, restarts>>
    /\ UNCHANGED <<dispatchVars, histVars, readerVars, engineVars, moveVars, moveHist, atkVars, atkHist, handlerVars, writerVars, dlgVars, ctxVars>>

\* rename returned non-zero (its result is not looked at): both paths keep
\* what they named.
WsRenameFails ==
    /\ pc = "ws_rename"
    /\ pc' = "idle"
    /\ UNCHANGED <<cmdFile, agentNext, content, cmdIdx, gAgentTick, restarts>>
    /\ UNCHANGED <<dispatchVars, histVars, fsVars, readerVars, engineVars, moveVars, moveHist, atkVars, atkHist, handlerVars, writerVars, dlgVars, ctxVars>>

\* writeState as one step of the tick (no reader runs in between): either
\* fopen fails and nothing changes, or the canonical path names a file that
\* holds the whole document.
WriteState ==
    /\ pc = "ws_open"
    /\ pc' = "idle"
    /\ LET doc == StateDocument(gAgentTick, gAgentLastCommandDebug)
           ino == IF paths[kStateTmpPath] = NoIno THEN UnusedInode ELSE paths[kStateTmpPath]
       IN  \/ UNCHANGED fsVars
           \/ /\ wsDoc' = doc
              /\ inode' = [inode EXCEPT ![ino] = [doc |-> doc, written |-> DocChunks]]
              /\ paths' = [paths EXCEPT ![kStatePath] = ino, ![kStateTmpPath] = NoIno]
    /\ UNCHANGED <<cmdFile, agentNext, content, cmdIdx, gAgentTick, restarts>>
    /\ UNCHANGED <<dispatchVars, histVars, readerVars, engineVars, moveVars, moveHist, atkVars, atkHist, handlerVars, writerVars, dlgVars, ctxVars>>

\* An external reader (the agent) opens the canonical path, and later reads
\* the bytes of the file it opened.
ReaderOpen ==
    /\ readerIno = NoIno
    /\ paths[kStatePath] # NoIno
    /\ readerIno' = paths[kStatePath]
    /\ UNCHANGED readerSaw
    /\ UNCHANGED <<cmdVars, dispatchVars, histVars, fsVars, engineVars, moveVars, moveHist, atkVars, atkHist, handlerVars, writerVars, dlgVars, ctxVars>>

ReaderRead ==
    /\ readerIno # NoIno
    /\ readerSaw' = (readerSaw \/ ~Complete(inode[readerIno]))
    /\ readerIno' = NoIno
    /\ UNCHANGED <<cmdVars, dispatchVars, histVars, fsVars, engineVars, moveVars, moveHist, atkVars, atkHist, handlerVars, writerVars, dlgVars, ctxVars>>

\* --------------------------- item, loot, teleport and world map handlers

MaxInputEvents == 1      \* injected input events the engine has not read yet
Tiles == {100, 200}      \* gDude->tile

\* gAgentTestMode and the engine state these handlers read and change:
\* inven_get_current_target_obj() != nullptr (a loot screen is open), whether
\* the container / gDude carries the item the commands name, whether it lies
\* on the ground, whether the right hand wields an item, gDude->tile, the
\* world map's area state and party position, the map load requested from
\* the world map loop, and the events enqueueInputEvent has injected; for the
\* test-mode commands the open flag of the door they name, isInCombat() as
\* the handler sees it, the transition set by mapSetTransition and the
\* explosion actionExplode has started.
WorldInit ==
    [testMode |-> FALSE, lootTarget |-> FALSE, inContainer |-> TRUE, carried |-> TRUE,
     onGround |-> FALSE, rightHand |-> TRUE, tile |-> 100, areaKnown |-> FALSE,
     areaVisited |-> FALSE, partyInArea |-> FALSE, mapLoadRequested |-> FALSE,
     inputEvents |-> <<>>, doorOpen |-> FALSE, combat |-> FALSE, transition |-> FALSE,
     exploded |-> FALSE]

NoCall == [type |-> "none", argsOk |-> FALSE, arg |-> "none", status |-> "none"]

\* The "enabled" member of a set_test_mode command: absent, a boolean, or a
\* value of another JSON type.
EnabledArgs == {"absent", "true", "false", "number"}

\* A conversion to bool that takes any number for true.
EnabledTruthy(arg) == arg \in {"true", "number"}

\* cmd.contains("enabled") && cmd["enabled"].is_boolean() && get<bool>().
EnabledIsTrue(arg) == arg = "true"

\* handleSetTestModeCommand: gAgentTestMode = enabled, which is true only
\* for a boolean true; the result is always Ok.
SetTestMode(w, arg) ==
    [status |-> "Ok", w |-> [w EXCEPT !.testMode = EnabledIsTrue(arg)], elev |-> -1,
     debug |-> IF EnabledIsTrue(arg) THEN "set_test_mode: ON" ELSE "set_test_mode: OFF"]

\* handleMapTransition: the map/elevation/tile check comes first, the
\* test-mode gate second; then mapSetTransition.
MapTransition(w, argsOk) ==
    IF ~argsOk
    THEN [status |-> "BadArgs", w |-> w, debug |-> "map_transition: missing map/elevation/tile"]
    ELSE IF ~w.testMode
    THEN [status |-> "Blocked", w |-> w, debug |-> "map_transition: BLOCKED"]
    ELSE [status |-> "Ok", w |-> [w EXCEPT !.transition = TRUE], debug |-> "map_transition: done"]

\* handleOpenDoor: the test-mode gate, then "object_id", the lookup, the door
\* test, the distance, the lock and the open flag; then the door is opened.
OpenDoor(w, hasId, found, isDoor, near, locked) ==
    IF ~w.testMode
    THEN [status |-> "Blocked", w |-> w, debug |-> "open_door: BLOCKED"]
    ELSE IF ~hasId
    THEN [status |-> "BadArgs", w |-> w, debug |-> "open_door: missing object_id"]
    ELSE IF ~found
    THEN [status |-> "Failed", w |-> w, debug |-> "open_door: not found"]
    ELSE IF ~isDoor
    THEN [status |-> "BadArgs", w |-> w, debug |-> "open_door: not a door"]
    ELSE IF ~near
    THEN [status |-> "Failed", w |-> w, debug |-> "open_door: too far"]
    ELSE IF locked
    THEN [status |-> "Blocked", w |-> w, debug |-> "open_door: door is locked"]
    ELSE IF w.doorOpen
    THEN [status |-> "NoOp", w |-> w, debug |-> "open_door: already open"]
    ELSE [status |-> "Ok", w |-> [w EXCEPT !.doorOpen = TRUE], debug |-> "open_door: opened"]

\* handleGiveItem: the test-mode gate, then "item_pid"; objectCreateWithPid
\* and itemAdd may fail.
GiveItem(w, hasPid, createOk, addOk) ==
    IF ~w.testMode
    THEN [status |-> "Blocked", w |-> w, debug |-> "give_item: BLOCKED"]
    ELSE IF ~hasPid
    THEN [status |-> "BadArgs", w |-> w, debug |-> "give_item: missing 'item_pid'"]
    ELSE IF ~createOk
    THEN [status |-> "Failed", w |-> w, debug |-> "give_item: failed to create"]
    ELSE IF ~addOk
    THEN [status |-> "Failed", w |-> w, debug |-> "give_item: failed to add"]
    ELSE [status |-> "Ok", w |-> [w EXCEPT !.carried = TRUE], debug |-> "give_item: pid"]

\* handleForceEndCombatCommand: the test-mode gate, then NoOp outside combat,
\* else _combat_over_from_load.
ForceEndCombat(w) ==
    IF ~w.testMode
    THEN [status |-> "Blocked", w |-> w, debug |-> "force_end_combat: BLOCKED"]
    ELSE IF ~w.combat
    THEN [status |-> "NoOp", w |-> w, debug |-> "force_end_combat: not in combat"]
    ELSE [status |-> "Ok", w |-> [w EXCEPT !.combat = FALSE],
          debug |-> "force_end_combat: combat ended"]

\* handleDetonateAtCommand: the test-mode gate, then "tile"; then
\* actionExplode and _scr_explode_scenery.
DetonateAt(w, hasTile) ==
    IF ~w.testMode
    THEN [status |-> "Blocked", w |-> w, debug |-> "detonate_at: BLOCKED"]
    ELSE IF ~hasTile
    THEN [status |-> "BadArgs", w |-> w, debug |-> "detonate_at: missing 'tile'"]
    ELSE [status |-> "Ok", w |-> [w EXCEPT !.exploded = TRUE], debug |-> "detonate_at: tile"]

\* handleNudgeCommand: the test-mode gate, then "tile" and the distance
\* (at most 1); then objectSetLocation. The action point a nudge costs in
\* combat is outside the state kept here.
Nudge(w, hasTile, tile, near) ==
    IF ~w.testMode
    THEN [status |-> "Blocked", w |-> w, debug |-> "nudge: BLOCKED"]
    ELSE IF ~hasTile
    THEN [status |-> "BadArgs", w |-> w, debug |-> "nudge: missing 'tile'"]
    ELSE IF ~near
    THEN [status |-> "Failed", w |-> w, debug |-> "nudge: too far"]
    ELSE [status |-> "Ok", w |-> [w EXCEPT !.tile = tile], debug |-> "nudge: moved"]

\* handleTeleport: the test-mode gate comes first, the "tile" check second;
\* then objectSetLocation(gDude, tile, elevation) and mapSetElevation.
Teleport(w, elevNow, hasTile, tile, hasElev, elev) ==
    IF ~w.testMode
    THEN [status |-> "Blocked", w |-> w, elev |-> elevNow,
          debug |-> "teleport: BLOCKED (test mode disabled)"]
    ELSE IF ~hasTile
    THEN [status |-> "BadArgs", w |-> w, elev |-> elevNow, debug |-> "teleport: missing 'tile'"]
    ELSE [status |-> "Ok", w |-> [w EXCEPT !.tile = tile],
          elev |-> (IF hasElev THEN elev ELSE elevNow), debug |-> "teleport: done"]

\* handleLootTake: the loot target check comes first, the "item_pid" check
\* second; then objectGetCarriedObjectByPid(target, pid) and itemMove.
LootTake(w, hasPid, rcOk) ==
    IF ~w.lootTarget
    THEN [status |-> "Blocked", w |-> w, debug |-> "loot_take: no loot target"]
    ELSE IF ~hasPid
    THEN [status |-> "BadArgs", w |-> w, debug |-> "loot_take: missing 'item_pid'"]
    ELSE IF ~w.inContainer
    THEN [status |-> "Failed", w |-> w, debug |-> "loot_take: not in container"]
    ELSE IF ~rcOk
    THEN [status |-> "Failed", w |-> w, debug |-> "loot_take: rc"]
    ELSE [status |-> "Ok", w |-> [w EXCEPT !.inContainer = FALSE, !.carried = TRUE],
          debug |-> "loot_take: rc"]

\* enqueueInputEvent(key).
InputEventEnqueued(w, key) == [w EXCEPT !.inputEvents = Append(@, key)]

\* handleLootClose: injects Escape and returns Ok; the loot screen is not asked.
LootClose(w) ==
    [status |-> "Ok", w |-> InputEventEnqueued(w, "escape"), debug |-> "loot_close"]

\* handleDropItem: "item_pid" and quantity >= 1 are checked first; an item
\* that is not carried gives Failed; itemRemove and _obj_connect may fail (the
\* item is then put back).
DropItem(w, hasPid, quantityOk, removeOk, connectOk) ==
    IF ~hasPid
    THEN [status |-> "BadArgs", w |-> w, debug |-> "drop_item: missing 'item_pid'"]
    ELSE IF ~quantityOk
    THEN [status |-> "BadArgs", w |-> w, debug |-> "drop_item: quantity must be >= 1"]
    ELSE IF ~w.carried
    THEN [status |-> "Failed", w |-> w, debug |-> "drop_item: not in inventory"]
    ELSE IF ~removeOk
    THEN [status |-> "Failed", w |-> w, debug |-> "drop_item: itemRemove failed"]
    ELSE IF ~connectOk
    THEN [status |-> "Failed", w |-> w, debug |-> "drop_item: _obj_connect failed"]
    ELSE [status |-> "Ok", w |-> [w EXCEPT !.carried = FALSE, !.onGround = TRUE],
          debug |-> "drop_item: pid"]

\* handleUnequipItem: _inven_unwield(gDude, hand) and Ok, whatever the hand
\* holds; unwielding an empty hand changes nothing.
UnequipItem(w) ==
    [status |-> "Ok", w |-> [w EXCEPT !.rightHand = FALSE], debug |-> "unequip_item: hand"]

\* handleWorldmapEnterLocation: after the "area_id" check the area is made
\* known, the party is moved there (wmTeleportToArea) and the area is marked
\* visited; only then is the entrance looked up, and an invalid entrance
\* returns BadArgs. A valid one requests the map load.
WorldmapEnterLocation(w, hasArea, entranceValid) ==
    IF ~hasArea
    THEN [status |-> "BadArgs", w |-> w, debug |-> "worldmap_enter_location: missing 'area_id'"]
    ELSE LET w1 == [w EXCEPT !.areaKnown = TRUE, !.partyInArea = TRUE, !.areaVisited = TRUE]
         IN  IF ~entranceValid
             THEN [status |-> "BadArgs", w |-> w1,
                   debug |-> "worldmap_enter_location: invalid entrance"]
             ELSE [status |-> "Ok", w |-> [w1 EXCEPT !.mapLoadRequested = TRUE],
                   debug |-> "worldmap_enter_location: direct load"]

\* agentForceObjectRefresh: gLastObjectEnumTick = 0.
agentForceObjectRefresh == 0

\* The handler has called agentForceObjectRefresh: open_door, map_transition,
\* teleport and worldmap_enter_location on their way to Ok, loot_take after
\* itemMove whatever it returned.
ForcesRefresh(type, r) ==
    \/ type \in {"open_door", "map_transition", "teleport", "worldmap_enter_location"}
       /\ r.status = "Ok"
    \/ type = "loot_take" /\ r.debug = "loot_take: rc"

\* The dispatcher calls a handler: what the call leaves behind. The result is
\* logged (trackAndLogCommandResult) before the next command is dispatched.
HandlerCalledWith(type, argsOk, arg, r, elev) ==
    /\ lastCall = NoCall
    /\ world' = r.w
    /\ dudeElevation' = elev
    /\ gAgentLastCommandDebug' = r.debug
    /\ lastCall' = [type |-> type, argsOk |-> argsOk, arg |-> arg, status |-> r.status]
    /\ gLastObjectEnumTick' =
          (IF ForcesRefresh(type, r) THEN agentForceObjectRefresh ELSE gLastObjectEnumTick)
    /\ UNCHANGED <<cmdVars, gCommandFailureCounts, gAgentStatusOverlayActive, tickLog,
                   histVars, fsVars, readerVars, curMap, inCombat, animBusy, moveVars,
                   moveHist, atkVars, atkHist, gCachedObjects, lastWrite, enumHist, dlgVars, ctxVars>>

HandlerCalled(type, argsOk, r, elev) == HandlerCalledWith(type, argsOk, "none", r, elev)

SetTestModeCmd ==
    \E arg \in EnabledArgs :
        HandlerCalledWith("set_test_mode", TRUE, arg, SetTestMode(world, arg), dudeElevation)

MapTransitionCmd ==
    \E argsOk \in BOOLEAN :
        HandlerCalled("map_transition", argsOk, MapTransition(world, argsOk), dudeElevation)

OpenDoorCmd ==
    \E hasId \in BOOLEAN, ok \in BOOLEAN, locked \in BOOLEAN :
        /\ (hasId /\ ok) \/ ~locked
        /\ hasId \/ ok
        /\ HandlerCalled("open_door", hasId, OpenDoor(world, hasId, ok, ok, ok, locked),
                         dudeElevation)

GiveItemCmd ==
    \E hasPid \in BOOLEAN, createOk \in BOOLEAN, addOk \in BOOLEAN :
        /\ hasPid \/ createOk
        /\ createOk \/ addOk
        /\ HandlerCalled("give_item", hasPid, GiveItem(world, hasPid, createOk, addOk),
                         dudeElevation)

ForceEndCombatCmd ==
    HandlerCalled("force_end_combat", TRUE, ForceEndCombat(world), dudeElevation)

DetonateAtCmd ==
    \E hasTile \in BOOLEAN :
        HandlerCalled("detonate_at", hasTile, DetonateAt(world, hasTile), dudeElevation)

NudgeCmd ==
    \E hasTile \in BOOLEAN, tile \in Tiles, near \in BOOLEAN :
        /\ hasTile \/ (tile = 100 /\ near)
        /\ HandlerCalled("nudge", hasTile, Nudge(world, hasTile, tile, near), dudeElevation)

TeleportCmd ==
    \E hasTile \in BOOLEAN, tile \in Tiles, hasElev \in BOOLEAN, elev \in Elevations :
        /\ hasTile \/ (tile = 100 /\ ~hasElev)
        /\ hasElev \/ elev = 0
        /\ \E r \in {Teleport(world, dudeElevation, hasTile, tile, hasElev, elev)} :
              HandlerCalled("teleport", hasTile, r, r.elev)

LootTakeCmd ==
    \E hasPid \in BOOLEAN, rcOk \in BOOLEAN :
        /\ hasPid \/ rcOk
        /\ HandlerCalled("loot_take", hasPid, LootTake(world, hasPid, rcOk), dudeElevation)

LootCloseCmd ==
    /\ Len(world.inputEvents) < MaxInputEvents
    /\ HandlerCalled("loot_close", TRUE, LootClose(world), dudeElevation)

DropItemCmd ==
    \E hasPid \in BOOLEAN, quantityOk \in BOOLEAN, removeOk \in BOOLEAN, connectOk \in BOOLEAN :
        /\ hasPid \/ quantityOk
        /\ (hasPid /\ quantityOk) \/ removeOk
        /\ removeOk \/ connectOk
        /\ HandlerCalled("drop_item", hasPid /\ quantityOk,
                         DropItem(world, hasPid, quantityOk, removeOk, connectOk),
                         dudeElevation)

UnequipItemCmd == HandlerCalled("unequip_item", TRUE, UnequipItem(world), dudeElevation)

WorldmapEnterLocationCmd ==
    \E hasArea \in BOOLEAN, entranceValid \in BOOLEAN :
        /\ hasArea \/ entranceValid
        /\ HandlerCalled("worldmap_enter_location", hasArea /\ entranceValid,
                         WorldmapEnterLocation(world, hasArea, entranceValid),
                         dudeElevation)

\* trackAndLogCommandResult: the result of the call is logged.
ResultLogged ==
    /\ lastCall # NoCall
    /\ lastCall' = NoCall
    /\ UNCHANGED <<cmdVars, dispatchVars, histVars, fsVars, readerVars, engineVars, moveVars,
                   moveHist, atkVars, atkHist, world, writerVars, dlgVars, ctxVars>>

\* The engine, between two commands: a loot screen opens on a container, and
\* the engine reads an injected event (Escape closes an open loot screen).
EngineStep(w) ==
    /\ lastCall = NoCall
    /\ world' = w
    /\ UNCHANGED <<cmdVars, dispatchVars, histVars, fsVars, readerVars, engineVars, moveVars,
                   moveHist, atkVars, atkHist, lastCall, writerVars, dlgVars, ctxVars>>

LootScreenOpens ==
    /\ ~world.lootTarget
    /\ EngineStep([world EXCEPT !.lootTarget = TRUE])

\* Combat begins: isInCombat() turns true.
CombatBegins ==
    /\ ~world.combat
    /\ EngineStep([world EXCEPT !.combat = TRUE])

EngineReadsInput ==
    /\ world.inputEvents # <<>>
    /\ EngineStep([world EXCEPT !.inputEvents = Tail(@),
                                !.lootTarget = (@ /\ Head(world.inputEvents) # "escape")])

\* ------------------------------------- state writer: object enumeration

MaxEnumTick == 21        \* ticks of the enumeration specification

\* Throttle: only enumerate objects every N ticks.
kObjectEnumInterval == 10

\* What an enumeration of the objects around the player can return, and the
\* value of a json that was never assigned.
ObjectSets == {"objects_a", "objects_b"}
NoObjects == "null"

NoWrite ==
    [tick |-> 0, section |-> FALSE, enumerated |-> FALSE, objects |-> NoObjects,
     playerTurn |-> FALSE, forced |-> FALSE, prevAt |-> 0]

\* History: the tick of the last enumeration (0: none yet), whether
\* agentForceObjectRefresh was called since, and whether it was called since
\* the last write of the map section.
NoEnum == [at |-> 0, forcedSince |-> FALSE, pending |-> FALSE]

WriterInit ==
    /\ gLastObjectEnumTick = 0
    /\ gCachedObjects = NoObjects
    /\ lastWrite = NoWrite
    /\ enumHist = NoEnum

\* A throttle that does not look at the combat state.
ShouldEnumThrottleOnly(isPlayerTurn, tick, last) == tick - last >= kObjectEnumInterval

\* An enumeration on every tick that is a multiple of the interval.
ShouldEnumOnMultiples(isPlayerTurn, tick, last) ==
    isPlayerTurn \/ tick % kObjectEnumInterval = 0

\* bool shouldEnum = isPlayerTurn
\*     || (gAgentTick - gLastObjectEnumTick >= (unsigned int)kObjectEnumInterval);
\* gLastObjectEnumTick never exceeds gAgentTick here, so the unsigned
\* difference is the difference.
ShouldEnum(isPlayerTurn, tick, last) ==
    isPlayerTurn \/ tick - last >= kObjectEnumInterval

\* writeMapAndObjectState: nothing without a map; otherwise the map and
\* player members, then either the cached objects or a fresh enumeration,
\* which is cached and stamps gLastObjectEnumTick.
writeMapAndObjectState(hasMap, isPlayerTurn, tick, last, cache, found) ==
    IF ~hasMap
    THEN [section |-> FALSE, enumerated |-> FALSE, objects |-> NoObjects,
          last |-> last, cache |-> cache]
    ELSE IF ~ShouldEnum(isPlayerTurn, tick, last)
    THEN [section |-> TRUE, enumerated |-> FALSE, objects |-> cache,
          last |-> last, cache |-> cache]
    ELSE [section |-> TRUE, enumerated |-> TRUE, objects |-> found,
          last |-> tick, cache |-> found]

\* One tick of the bridge as the enumeration sees it: gAgentTick++, the
\* batch (whose handlers may have called agentForceObjectRefresh), then
\* writeState, whose map section is written when a map is loaded and the
\* context has the section.
EnumTick ==
    /\ pc = "idle"
    /\ gAgentTick < MaxEnumTick
    /\ \E force \in BOOLEAN, hasMap \in BOOLEAN, isPlayerTurn \in BOOLEAN, found \in ObjectSets :
          /\ hasMap \/ (~isPlayerTurn /\ found = "objects_a")
          /\ \E r \in {writeMapAndObjectState(hasMap, isPlayerTurn, gAgentTick + 1,
                            IF force THEN agentForceObjectRefresh ELSE gLastObjectEnumTick,
                            gCachedObjects, found)} :
                /\ r.enumerated \/ found = "objects_a"
                /\ gAgentTick' = gAgentTick + 1
                /\ gLastObjectEnumTick' = r.last
                /\ gCachedObjects' = r.cache
                /\ lastWrite' = [tick |-> gAgentTick + 1, section |-> r.section,
                                 enumerated |-> r.enumerated, objects |-> r.objects,
                                 playerTurn |-> isPlayerTurn,
                                 forced |-> (force \/ enumHist.pending),
                                 prevAt |-> enumHist.at]
                /\ enumHist' =
                      [at |-> IF r.enumerated THEN gAgentTick + 1 ELSE enumHist.at,
                       forcedSince |-> (~r.enumerated /\ (force \/ enumHist.forcedSince)),
                       pending |-> (~r.section /\ (force \/ enumHist.pending))]
    /\ UNCHANGED <<cmdFile, agentNext, pc, content, cmdIdx, restarts>>
    /\ UNCHANGED <<dispatchVars, histVars, fsVars, readerVars, engineVars, moveVars, moveHist,
                   atkVars, atkHist, handlerVars, dlgVars, ctxVars>>

\* ---------------------------------------------- deferred dialogue select

MaxDlgTick == 5          \* ticks of the dialogue specification

\* Ticks the highlight stays before the key is injected (about 0.5 s).
kDialogueSelectDwell == 2

\* agentGetDialogOptionCount() and the "index" arguments tried: absent (NoIndex),
\* below, inside and above the range of options.
OptionCount == 2
NoIndex == -9
IndexArgs == {NoIndex, -1, 0, 1, 2}
NoPending == -1

DialogueInit == [active |-> FALSE, highlight |-> NoPending, pos |-> "engine"]

\* History of the last accepted select_dialogue: its index, the tick it was
\* accepted in, what became of it (pending, committed, discarded,
\* superseded by a later select), the number of times its key was injected
\* and the tick of the injection; and of the last select_dialogue handled:
\* its result, its "index" argument and the slot it found.
NoSelection ==
    [index |-> NoPending, at |-> 0, fate |-> "none", commits |-> 0, doneAt |-> 0,
     status |-> "none", arg |-> NoIndex, before |-> NoPending]

DlgInit ==
    /\ gAgentPendingDialogueSelect = NoPending
    /\ gAgentDialogueSelectTick = 0
    /\ dialogue = DialogueInit
    /\ selection = NoSelection

\* A highlight whose tick is not recorded.
SelectTickKept(tick, old) == old

\* gAgentDialogueSelectTick = gAgentTick.
SelectTickRecorded(tick, old) == tick

\* A range test that lets the option count itself through.
IndexUpToCount(index, optionCount) == index < 0 \/ index > optionCount

\* if (index < 0 || index >= optionCount)
IndexOutOfRange(index, optionCount) == index < 0 \/ index >= optionCount

\* handleSelectDialogue: BadArgs without an integer "index", Blocked without
\* an active dialogue, BadArgs for an index out of range; otherwise the
\* option is highlighted and the select is deferred: the slot takes the
\* index and the current tick.
SelectDialogue(index, active, tick, pending, selTick) ==
    IF index = NoIndex
    THEN [status |-> "BadArgs", pending |-> pending, selTick |-> selTick, accepted |-> FALSE]
    ELSE IF ~active
    THEN [status |-> "Blocked", pending |-> pending, selTick |-> selTick, accepted |-> FALSE]
    ELSE IF IndexOutOfRange(index, OptionCount)
    THEN [status |-> "BadArgs", pending |-> pending, selTick |-> selTick, accepted |-> FALSE]
    ELSE [status |-> "Ok", pending |-> index, selTick |-> SelectTickRecorded(tick, selTick),
          accepted |-> TRUE]

\* The per-tick service of the deferred select: nothing while the slot is
\* empty or the dwell has not elapsed; then the slot is emptied, and the
\* key is injected if the dialogue is still active, the select dropped if
\* it is not.
ServiceDialogueSelect(pending, selTick, tick, active) ==
    IF pending = NoPending
    THEN [outcome |-> "idle", pending |-> pending]
    ELSE IF tick - selTick < kDialogueSelectDwell
    THEN [outcome |-> "wait", pending |-> pending]
    ELSE IF active
    THEN [outcome |-> "commit", pending |-> NoPending]
    ELSE [outcome |-> "discard", pending |-> NoPending]

DlgUnchanged ==
    UNCHANGED <<cmdFile, agentNext, pc, content, cmdIdx, restarts, dispatchVars, histVars,
                fsVars, readerVars, engineVars, moveVars, moveHist, atkVars, atkHist,
                handlerVars, writerVars, ctxVars>>

\* The host loop calls the bridge's per-tick entry point: gAgentTick++.
DlgTick ==
    /\ dialogue.pos = "engine"
    /\ gAgentTick < MaxDlgTick
    /\ gAgentTick' = gAgentTick + 1
    /\ dialogue' = [dialogue EXCEPT !.pos = "commands"]
    /\ UNCHANGED <<gAgentPendingDialogueSelect, gAgentDialogueSelectTick, selection>>
    /\ DlgUnchanged

\* The dispatcher hands a select_dialogue command to handleSelectDialogue.
SelectDialogueCmd ==
    /\ dialogue.pos = "commands"
    /\ \E index \in IndexArgs :
          \E r \in {SelectDialogue(index, dialogue.active, gAgentTick,
                                    gAgentPendingDialogueSelect, gAgentDialogueSelectTick)} :
             /\ gAgentPendingDialogueSelect' = r.pending
             /\ gAgentDialogueSelectTick' = r.selTick
             /\ dialogue' = [dialogue EXCEPT !.pos = "service",
                                             !.highlight = IF r.accepted THEN index ELSE @]
             /\ selection' =
                   IF r.accepted
                   THEN [index |-> index, at |-> gAgentTick, fate |-> "pending",
                         commits |-> 0, doneAt |-> 0, status |-> r.status,
                         arg |-> index, before |-> gAgentPendingDialogueSelect]
                   ELSE [selection EXCEPT !.status = r.status, !.arg = index,
                                          !.before = gAgentPendingDialogueSelect]
    /\ UNCHANGED gAgentTick
    /\ DlgUnchanged

\* After dispatch the tick services the deferred select once.
DlgService ==
    /\ dialogue.pos \in {"commands", "service"}
    /\ \E r \in {ServiceDialogueSelect(gAgentPendingDialogueSelect, gAgentDialogueSelectTick,
                                        gAgentTick, dialogue.active)} :
          /\ gAgentPendingDialogueSelect' = r.pending
          /\ dialogue' = [dialogue EXCEPT !.pos = "engine"]
          /\ selection' =
                IF r.outcome = "commit"
                THEN [selection EXCEPT !.fate = "committed", !.commits = @ + 1,
                                       !.doneAt = gAgentTick, !.status = "none"]
                ELSE IF r.outcome = "discard"
                THEN [selection EXCEPT !.fate = "discarded", !.doneAt = gAgentTick,
                                       !.status = "none"]
                ELSE [selection EXCEPT !.status = "none"]
    /\ UNCHANGED <<gAgentTick, gAgentDialogueSelectTick>>
    /\ DlgUnchanged

\* Between two ticks the engine opens or closes the dialogue.
DialogueToggles ==
    /\ dialogue.pos = "engine"
    /\ dialogue' = [dialogue EXCEPT !.active = ~@, !.highlight = NoPending]
    /\ UNCHANGED <<gAgentTick, gAgentPendingDialogueSelect, gAgentDialogueSelectTick, selection>>
    /\ DlgUnchanged

\* ------------------------------------------------------ context detection

AGENT_CONTEXT_UNKNOWN == 0
AGENT_CONTEXT_MAIN_MENU == 1
AGENT_CONTEXT_CHAR_SELECTOR == 2
AGENT_CONTEXT_GAMEPLAY == 3
AGENT_CONTEXT_CHAR_EDITOR == 4
AgentContexts == AGENT_CONTEXT_UNKNOWN..AGENT_CONTEXT_CHAR_EDITOR

\* gameMovieIsPlaying(), GameMode::kEditor, gAgentContext, and what
\* detectContext does not read: gAgentDeathScreenActive, an overlay screen
\* (inventory, loot, barter, world map), GameMode::kDialog, GameMode::kCombat.
FlagsInit ==
    [movie |-> FALSE, editor |-> FALSE, gAgentContext |-> AGENT_CONTEXT_UNKNOWN,
     deathScreen |-> FALSE, overlay |-> FALSE, dialog |-> FALSE, combat |-> FALSE]

ModeFlags == {"movie", "editor", "deathScreen", "overlay", "dialog", "combat"}

NotDetected == [context |-> "none", flags |-> FlagsInit]

\* detectContext: movie playback first, then the character editor (mode
\* flag or manual hook), then the manual context hooks.
DetectContext(f) ==
    IF f.movie THEN "movie"
    ELSE IF f.editor \/ f.gAgentContext = AGENT_CONTEXT_CHAR_EDITOR THEN "character_editor"
    ELSE IF f.gAgentContext = AGENT_CONTEXT_MAIN_MENU THEN "main_menu"
    ELSE IF f.gAgentContext = AGENT_CONTEXT_CHAR_SELECTOR THEN "character_selector"
    ELSE IF f.gAgentContext = AGENT_CONTEXT_GAMEPLAY THEN "gameplay"
    ELSE "unknown"

CtxUnchanged ==
    UNCHANGED <<cmdVars, dispatchVars, histVars, fsVars, readerVars, engineVars, moveVars,
                moveHist, atkVars, atkHist, handlerVars, writerVars, dlgVars>>

\* agentBridgeSetContext(context).
agentBridgeSetContext ==
    /\ \E context \in AgentContexts :
          /\ context # flags.gAgentContext
          /\ flags' = [flags EXCEPT !.gAgentContext = context]
    /\ UNCHANGED <<detected, snapshot>>
    /\ CtxUnchanged

\* The engine enters or leaves a mode.
GameModeChanges ==
    /\ \E m \in ModeFlags : flags' = [flags EXCEPT ![m] = ~@]
    /\ UNCHANGED <<detected, snapshot>>
    /\ CtxUnchanged

\* The state writer asks for the context.
DetectContextCall ==
    /\ detected' = [context |-> DetectContext(flags), flags |-> flags]
    /\ UNCHANGED <<flags, snapshot>>
    /\ CtxUnchanged

\* ------------------------------------------------ state writer: snapshot

MaxSnapTick == 2         \* ticks of the snapshot specification

\* What detectContext can hand to writeState.
SnapContexts ==
    {"unknown", "movie", "main_menu", "character_selector", "character_editor",
     "death_screen", "gameplay_exploration", "gameplay_worldmap", "gameplay_inventory",
     "gameplay_loot", "gameplay_barter", "gameplay_combat", "gameplay_dialogue"}

IsGameplay(context) ==
    context \in {"gameplay_exploration", "gameplay_worldmap", "gameplay_inventory",
                 "gameplay_loot", "gameplay_barter", "gameplay_combat", "gameplay_dialogue"}

NoSnapshot ==
    [written |-> FALSE, opened |-> FALSE, tick |-> 0, members |-> {}, context |-> "none",
     hasDude |-> FALSE, hasMap |-> FALSE, lootTarget |-> FALSE, debug |-> ""]

CtxInit ==
    /\ flags = FlagsInit
    /\ detected = NotDetected
    /\ snapshot = NoSnapshot

\* A map section that is written whether a map is loaded or not.
MapSectionAlways(hasMap) == {"map", "player", "objects"}

\* writeMapAndObjectState, as far as the members go: nothing without a map.
MapSection(hasMap) == IF hasMap THEN {"map", "player", "objects"} ELSE {}

\* writeLootState: nothing without a loot target.
LootSection(lootTarget) == IF lootTarget THEN {"loot"} ELSE {}

\* writeCharacterStats, writeInventoryState, writePartyState, writeMessageLog
\* and writeQuestState.
CharacterSections == {"character", "inventory", "party_members", "message_log", "quests"}

\* writeGameplayState: an error member without the player object; else
\* game time and settings, the character sections, and the world map alone
\* in its context, otherwise the map section (not in the inventory, loot
\* and barter contexts) and the section of the context.
GameplaySections(context, hasDude, hasMap, lootTarget) ==
    IF ~hasDude THEN {"error"}
    ELSE {"game_time", "settings"} \cup CharacterSections \cup
         (IF context = "gameplay_worldmap" THEN {"worldmap"}
          ELSE (IF context \notin {"gameplay_inventory", "gameplay_loot", "gameplay_barter"}
                THEN MapSection(hasMap) ELSE {})
               \cup (IF context = "gameplay_combat" THEN {"combat"}
                     ELSE IF context = "gameplay_dialogue" THEN {"dialogue"}
                     ELSE IF context = "gameplay_loot" THEN LootSection(lootTarget)
                     ELSE IF context = "gameplay_barter" THEN {"barter"}
                     ELSE {}))

\* The members writeState puts into the document before the context branch;
\* last_command_debug only when gAgentLastCommandDebug is not empty.
\* (player_dead and look_at_result depend on state that is not kept here.)
HeaderMembers(debug) ==
    {"tick", "timestamp_ms", "game_mode", "game_mode_flags", "game_state", "test_mode",
     "mouse", "screen", "context"}
    \cup (IF debug # "" THEN {"last_command_debug"} ELSE {})

\* writeState: the members of the document for the context detectContext
\* returned.
StateMembers(debug, context, hasDude, hasMap, lootTarget) ==
    HeaderMembers(debug) \cup
    (IF context = "movie" THEN {"available_actions"}
     ELSE IF context = "main_menu" THEN {"available_actions", "save_games"}
     ELSE IF context = "character_selector" THEN {"premade_characters", "available_actions"}
     ELSE IF context = "character_editor" THEN {"character", "available_actions"}
     ELSE IF IsGameplay(context) THEN GameplaySections(context, hasDude, hasMap, lootTarget)
     ELSE {})

\* One tick of the bridge as the snapshot sees it: gAgentTick++, then a
\* batch or none (a processed command leaves its outcome in
\* gAgentLastCommandDebug), then writeState: the document is built for the
\* detected context and written unless fopen of the temporary file fails.
\* The character editor runs with the player object in place.
SnapTick ==
    /\ pc = "idle"
    /\ gAgentTick < MaxSnapTick
    /\ gAgentTick' = gAgentTick + 1
    /\ \E processed \in BOOLEAN, context \in SnapContexts, hasDude \in BOOLEAN,
          hasMap \in BOOLEAN, lootTarget \in BOOLEAN, opened \in BOOLEAN :
          /\ context = "character_editor" => hasDude
          /\ gAgentLastCommandDebug' =
                (IF processed THEN "unknown_cmd" ELSE gAgentLastCommandDebug)
          /\ snapshot' =
                [written |-> opened, opened |-> opened, tick |-> gAgentTick + 1,
                 members |-> IF opened
                             THEN StateMembers(gAgentLastCommandDebug', context, hasDude,
                                               hasMap, lootTarget)
                             ELSE {},
                 context |-> context, hasDude |-> hasDude, hasMap |-> hasMap,
                 lootTarget |-> lootTarget, debug |-> gAgentLastCommandDebug']
    /\ UNCHANGED <<cmdFile, agentNext, pc, content, cmdIdx, restarts, gCommandFailureCounts,
                   gAgentStatusOverlayActive, tickLog, histVars, fsVars, readerVars,
                   engineVars, moveVars, moveHist, atkVars, atkHist, handlerVars, writerVars,
                   dlgVars, flags, detected>>

\* ---------------------------------------------------------- initial state

ProcessInit ==
    /\ pc = "idle"
    /\ content = NoContent
    /\ cmdIdx = 1
    /\ gAgentTick = 0
    /\ gCommandFailureCounts = [t \in {} |-> 0]
    /\ gAgentStatusOverlayActive = FALSE
    /\ gAgentLastCommandDebug = ""
    /\ tickLog = <<>>
    /\ wsDoc = NoDoc
    /\ gMoveWaypoints = [i \in 0..(kWaypointSlots - 1) |-> 0]
    /\ gMoveWaypointCount = 0
    /\ gMoveWaypointIndex = 0
    /\ gMoveIsRunning = FALSE
    /\ gMoveElevation = 0
    /\ gMoveMapIndex = -1
    /\ gPendingAttacks = <<>>

EngineInit ==
    /\ dudeElevation = 0
    /\ curMap = 0
    /\ inCombat = FALSE
    /\ animBusy = FALSE
    /\ ap = MaxAP
    /\ objState = [o \in ObjIds |-> "alive"]
    /\ phase = "engine"

HistoryInit ==
    /\ lastOp = "init"
    /\ lastCmd = NoCmd
    /\ lastStatus = "none"
    /\ issued = <<>>
    /\ svcOutcome = "none"
    /\ lastAtk = NoAtk
    /\ executed = <<>>
    /\ atkOutcome = "none"
    /\ queuedExecThisTick = 0
    /\ clearedSince = FALSE

\* agentBridgeInit: stale files of a previous run are removed.
FilesInit ==
    /\ cmdFile = NoFile
    /\ paths = [p \in StatePaths |-> NoIno]

Init ==
    /\ FilesInit
    /\ ProcessInit
    /\ EngineInit
    /\ HistoryInit
    /\ agentNext = 1
    /\ restarts = 0
    /\ consumed = {}
    /\ replayed = FALSE
    /\ batchDropped = FALSE
    /\ inode = [i \in Inodes |-> [doc |-> NoDoc, written |-> 0]]
    /\ readerIno = NoIno
    /\ readerSaw = FALSE
    /\ world = WorldInit
    /\ lastCall = NoCall
    /\ WriterInit
    /\ DlgInit
    /\ CtxInit

\* The process stops at any point (also in the middle of a tick) and is
\* started again: its memory is fresh and agentBridgeInit removes the files.
Restart ==
    /\ restarts < MaxRestarts
    /\ restarts' = restarts + 1
    /\ cmdFile' = NoFile
    /\ paths' = [p \in StatePaths |-> NoIno]
    /\ pc' = "idle"
    /\ content' = NoContent
    /\ cmdIdx' = 1
    /\ gAgentTick' = 0
    /\ gCommandFailureCounts' = [t \in {} |-> 0]
    /\ gAgentStatusOverlayActive' = FALSE
    /\ gAgentLastCommandDebug' = ""
    /\ tickLog' = <<>>
    /\ wsDoc' = NoDoc
    /\ gMoveWaypoints' = [i \in 0..(kWaypointSlots - 1) |-> 0]
    /\ gMoveWaypointCount' = 0
    /\ gMoveWaypointIndex' = 0
    /\ gMoveIsRunning' = FALSE
    /\ gMoveElevation' = 0
    /\ gMoveMapIndex' = -1
    /\ gPendingAttacks' = <<>>
    /\ dudeElevation' = 0
    /\ curMap' = 0
    /\ inCombat' = FALSE
    /\ animBusy' = FALSE
    /\ ap' = MaxAP
    /\ objState' = [o \in ObjIds |-> "alive"]
    /\ phase' = "engine"
    /\ lastOp' = "restart"
    /\ lastCmd' = NoCmd
    /\ lastStatus' = "none"
    /\ issued' = <<>>
    /\ svcOutcome' = "none"
    /\ lastAtk' = NoAtk
    /\ executed' = <<>>
    /\ atkOutcome' = "none"
    /\ queuedExecThisTick' = 0
    /\ clearedSince' = FALSE
    /\ batchDropped' = FALSE
    /\ world' = WorldInit
    /\ lastCall' = NoCall
    /\ gLastObjectEnumTick' = 0
    /\ gCachedObjects' = NoObjects
    /\ lastWrite' = NoWrite
    /\ enumHist' = NoEnum
    /\ gAgentPendingDialogueSelect' = NoPending
    /\ gAgentDialogueSelectTick' = 0
    /\ dialogue' = DialogueInit
    /\ selection' = NoSelection
    /\ flags' = FlagsInit
    /\ detected' = NotDetected
    /\ snapshot' = NoSnapshot
    /\ UNCHANGED <<agentNext, consumed, replayed, inode, readerIno, readerSaw>>

vars ==
    <<cmdVars, dispatchVars, histVars, fsVars, readerVars, engineVars, moveVars, moveHist,
      atkVars, atkHist, handlerVars, writerVars, dlgVars, ctxVars>>

\* ----------------------------------------------------------- specifications

\* The bridge process and the agent that publishes command batches.
Next ==
    \/ AgentWrite
    \/ TickNoFile
    \/ TickRead
    \/ DeleteCmd
    \/ ParseCmd
    \/ DispatchElement
    \/ DispatchThrows
    \/ DispatchEnd
    \/ WriteState
    \/ Restart

Spec == Init /\ [][Next]_vars

\* ------------------------------------------- host loop and engine (queues)

\* Everything of the file transport and the dispatcher except the debug string.
transportVars ==
    <<cmdFile, agentNext, pc, content, gAgentTick, restarts, gCommandFailureCounts,
      gAgentStatusOverlayActive, tickLog, histVars, fsVars, readerVars, handlerVars, writerVars, dlgVars, ctxVars>>

\* The history of the last bridge operation describes that operation only.
LastOperationForgotten ==
    /\ lastCmd' = NoCmd
    /\ lastStatus' = "none"
    /\ issued' = <<>>
    /\ svcOutcome' = "none"
    /\ lastAtk' = NoAtk
    /\ executed' = <<>>
    /\ atkOutcome' = "none"

\* Everything of the file transport and the dispatcher that a tick without a
\* command file leaves alone.
idleTransportVars ==
    <<cmdFile, agentNext, pc, content, restarts, gCommandFailureCounts,
      gAgentStatusOverlayActive, tickLog, histVars, fsVars, readerVars, handlerVars, writerVars, dlgVars, ctxVars>>

\* The host loop calls the bridge's per-tick entry point: gAgentTick++.
TickBegin(maxTick) ==
    /\ phase = "engine"
    /\ gAgentTick < maxTick
    /\ gAgentTick' = gAgentTick + 1
    /\ phase' = "commands"
    /\ cmdIdx' = 1
    /\ queuedExecThisTick' = 0
    /\ lastOp' = "tick"
    /\ LastOperationForgotten
    /\ UNCHANGED <<idleTransportVars, gAgentLastCommandDebug, engineVars, moveVars>>
    /\ UNCHANGED <<gPendingAttacks, ap, objState, clearedSince>>

MoveTick == TickBegin(MaxMoveTicks)
AtkTick == TickBegin(MaxAtkTicks)

\* The dispatcher hands a move_to or run_to command to handleMoveTo.
MoveCmd ==
    /\ phase = "commands"
    /\ cmdIdx <= MaxCmdsPerTick
    /\ cmdIdx' = cmdIdx + 1
    /\ \E run \in BOOLEAN : HandleMoveTo(run, DestTiles, PathLens)
    /\ UNCHANGED <<transportVars, atkVars, atkHist>>

\* After dispatch the tick services the waypoint queue once.
MoveService ==
    /\ phase = "commands"
    /\ phase' = "engine"
    /\ ServiceMovement
    /\ UNCHANGED <<transportVars, cmdIdx, gAgentLastCommandDebug, gPendingAttacks, ap, objState, atkHist>>

\* The dispatcher hands an attack command to handleAttack.
AtkCmd ==
    /\ phase = "commands"
    /\ cmdIdx <= MaxCmdsPerTick
    /\ cmdIdx' = cmdIdx + 1
    /\ HandleAttack
    /\ UNCHANGED transportVars

\* After dispatch the tick services the pending attack queue once.
AtkService ==
    /\ phase = "commands"
    /\ phase' = "engine"
    /\ ServiceAttacks
    /\ UNCHANGED <<transportVars, cmdIdx>>

\* Between two ticks the engine runs: what the bridge reads through
\* animationIsBusy, isInCombat, gDude->elevation, mapGetCurrentMap,
\* gDude->data.critter.combat.ap and findObjectByUniqueId / critterIsDead
\* changes.
EngineFrame ==
    /\ phase = "engine"
    /\ lastOp' = "engine"
    /\ LastOperationForgotten
    /\ UNCHANGED <<transportVars, cmdIdx, gAgentLastCommandDebug, moveVars>>
    /\ UNCHANGED <<gPendingAttacks, phase, queuedExecThisTick, clearedSince>>

AnimationEnds ==
    /\ animBusy
    /\ animBusy' = FALSE
    /\ EngineFrame
    /\ UNCHANGED <<dudeElevation, curMap, inCombat, ap, objState>>

CombatStarts ==
    /\ ~inCombat
    /\ inCombat' = TRUE
    /\ ap' = MaxAP
    /\ EngineFrame
    /\ UNCHANGED <<dudeElevation, curMap, animBusy, objState>>

CombatEnds ==
    /\ inCombat
    /\ inCombat' = FALSE
    /\ EngineFrame
    /\ UNCHANGED <<dudeElevation, curMap, animBusy, ap, objState>>

ElevationChanges ==
    /\ \E e \in Elevations : e > dudeElevation /\ dudeElevation' = e
    /\ EngineFrame
    /\ UNCHANGED <<curMap, inCombat, animBusy, ap, objState>>

MapChanges ==
    /\ \E m \in Maps : m > curMap /\ curMap' = m
    /\ EngineFrame
    /\ UNCHANGED <<dudeElevation, inCombat, animBusy, ap, objState>>

TurnBegins ==
    /\ inCombat
    /\ ap < MaxAP
    /\ ap' = MaxAP
    /\ EngineFrame
    /\ UNCHANGED <<dudeElevation, curMap, inCombat, animBusy, objState>>

TargetDies ==
    /\ \E o \in ObjIds : /\ objState[o] = "alive"
                         /\ objState' = [objState EXCEPT ![o] = "dead"]
    /\ EngineFrame
    /\ UNCHANGED <<dudeElevation, curMap, inCombat, animBusy, ap>>

TargetLeaves ==
    /\ \E o \in ObjIds : /\ objState[o] = "alive"
                         /\ objState' = [objState EXCEPT ![o] = "gone"]
    /\ EngineFrame
    /\ UNCHANGED <<dudeElevation, curMap, inCombat, animBusy, ap>>

\* The movement commands, the waypoint queue and the engine.
NextMove ==
    \/ MoveTick
    \/ MoveCmd
    \/ MoveService
    \/ AnimationEnds
    \/ CombatStarts
    \/ CombatEnds
    \/ ElevationChanges
    \/ MapChanges

SpecMove == Init /\ [][NextMove]_vars

\* The waypoint queue over an unbounded run of ticks. The tick counter, which
\* the queue does not read, is kept up to MaxLiveTick. While waypoints are in
\* flight the environment is the one the progress property is stated for: no
\* further movement command, no change of map or elevation, no combat, the
\* engine accepts the registrations of the service calls; every animation of
\* the actor ends, and the host loop keeps calling the tick. The paths are the
\* ones that make queues of up to three waypoints.
MaxLiveTick == 1
LivePathLens == {0, 15, 17, 33}

QueueAtRest == agentGetMovementWaypointsRemaining = 0

LiveTick ==
    /\ phase = "engine"
    /\ gAgentTick' = (IF gAgentTick < MaxLiveTick THEN gAgentTick + 1 ELSE gAgentTick)
    /\ phase' = "commands"
    /\ cmdIdx' = 1
    /\ queuedExecThisTick' = 0
    /\ lastOp' = "tick"
    /\ LastOperationForgotten
    /\ UNCHANGED <<idleTransportVars, gAgentLastCommandDebug, engineVars, moveVars>>
    /\ UNCHANGED <<gPendingAttacks, ap, objState, clearedSince>>

LiveMoveCmd ==
    /\ QueueAtRest
    /\ phase = "commands"
    /\ cmdIdx <= MaxCmdsPerTick
    /\ cmdIdx' = cmdIdx + 1
    /\ \E run \in BOOLEAN : HandleMoveTo(run, DestTiles, LivePathLens)
    /\ UNCHANGED <<transportVars, atkVars, atkHist>>
LiveMoveService ==
    /\ MoveService
    /\ svcOutcome' \notin {"reg_begin_failed", "register_failed"}
LiveCombatStarts == QueueAtRest /\ CombatStarts
LiveElevationChanges == QueueAtRest /\ ElevationChanges
LiveMapChanges == QueueAtRest /\ MapChanges

NextMoveLive ==
    \/ LiveTick
    \/ LiveMoveCmd
    \/ LiveMoveService
    \/ AnimationEnds
    \/ LiveCombatStarts
    \/ CombatEnds
    \/ LiveElevationChanges
    \/ LiveMapChanges

SpecMoveLive ==
    /\ Init
    /\ [][NextMoveLive]_vars
    /\ WF_vars(LiveTick)
    /\ WF_vars(LiveMoveService)
    /\ SF_vars(AnimationEnds)

\* The pending attack queue over an unbounded run of ticks: the host loop
\* keeps calling the tick, every tick services the queue, and every animation
\* of the actor ends. The agent may send attack commands at any tick, as long
\* as at most MaxLiveBacklog attacks are pending.
MaxLiveBacklog == 1

LiveAtkCmd == getPendingAttackCount <= MaxLiveBacklog /\ AtkCmd

NextAtkLive ==
    \/ LiveTick
    \/ LiveAtkCmd
    \/ AtkService
    \/ AnimationEnds
    \/ CombatStarts
    \/ CombatEnds
    \/ TurnBegins
    \/ TargetDies
    \/ TargetLeaves

SpecAtkLive ==
    /\ Init
    /\ [][NextAtkLive]_vars
    /\ WF_vars(LiveTick)
    /\ WF_vars(AtkService)
    /\ SF_vars(AnimationEnds)

\* The attack command, the pending attack queue and the engine.
NextAtk ==
    \/ AtkTick
    \/ AtkCmd
    \/ AtkService
    \/ AnimationEnds
    \/ CombatStarts
    \/ CombatEnds
    \/ TurnBegins
    \/ TargetDies
    \/ TargetLeaves

SpecAtk == Init /\ [][NextAtk]_vars

\* The bridge writing state snapshots step by step, and an external reader of
\* the canonical state path.
NextState ==
    \/ TickNoFile
    \/ WsOpen
    \/ WsOpenFails
    \/ WsWrite
    \/ WsClose
    \/ WsRename
    \/ WsRenameFails
    \/ ReaderOpen
    \/ ReaderRead
    \/ Restart

SpecState == Init /\ [][NextState]_vars

\* The handlers of the item, loot, teleport and world map commands, called
\* one after the other by the dispatcher, and the engine in between.
NextHandlers ==
    \/ SetTestModeCmd
    \/ TeleportCmd
    \/ LootTakeCmd
    \/ LootCloseCmd
    \/ DropItemCmd
    \/ UnequipItemCmd
    \/ WorldmapEnterLocationCmd
    \/ ResultLogged
    \/ LootScreenOpens
    \/ EngineReadsInput

SpecHandlers == Init /\ [][NextHandlers]_vars

\* The handlers behind the test-mode gate and set_test_mode, called one
\* after the other by the dispatcher, and combat beginning in between.
NextGate ==
    \/ SetTestModeCmd
    \/ TeleportCmd
    \/ MapTransitionCmd
    \/ OpenDoorCmd
    \/ GiveItemCmd
    \/ ForceEndCombatCmd
    \/ DetonateAtCmd
    \/ NudgeCmd
    \/ ResultLogged
    \/ CombatBegins

SpecGate == Init /\ [][NextGate]_vars

\* The ticks of the bridge as the object enumeration sees them.
NextEnum == EnumTick

SpecEnum == Init /\ [][NextEnum]_vars

\* The ticks of the bridge as the deferred dialogue select sees them.
NextDlg ==
    \/ DlgTick
    \/ SelectDialogueCmd
    \/ DlgService
    \/ DialogueToggles

SpecDlg == Init /\ [][NextDlg]_vars

\* Context detection while the engine changes modes.
NextCtx ==
    \/ agentBridgeSetContext
    \/ GameModeChanges
    \/ DetectContextCall

SpecCtx == Init /\ [][NextCtx]_vars

\* The ticks of the bridge as the snapshot sees them.
NextSnap == SnapTick

SpecSnap == Init /\ [][NextSnap]_vars

\* ------------------------------------------------------------------ claims

\* C1: the command file is deleted after it was read and before its bytes are
\* parsed (also when the parse then fails), and the bytes of one batch are
\* never read on a later tick, also when the process stops during dispatch.
C1_ConsumedAtMostOnce ==
    /\ ~replayed
    /\ pc \in {"removed", "dispatch"} => cmdFile.id # content.id

C1_Witness ==
    /\ pc = "removed"
    /\ content.body.kind = "malformed"
    /\ content.id \in consumed
    /\ cmdFile = NoFile

\* What the canonical state path holds: nothing, or the bytes of one file.
CanonBytes == IF paths[kStatePath] = NoIno THEN <<>> ELSE <<inode[paths[kStatePath]]>>

\* C2: a reader of the canonical state path never gets a partially written
\* document, and the bytes under that path change only by the rename of a
\* completely written and closed temp file.
C2_StateWriteAtomic ==
    /\ [](/\ ~readerSaw
          /\ paths[kStatePath] # NoIno => Complete(inode[paths[kStatePath]])
          /\ readerIno # NoIno => Complete(inode[readerIno]))
    /\ [][(CanonBytes' # CanonBytes /\ CanonBytes' # <<>>)
            => /\ pc = "ws_rename"
               /\ Complete(inode[paths[kStateTmpPath]])
               /\ CanonBytes' = <<inode[paths[kStateTmpPath]]>>]_vars

C2_Witness ==
    /\ readerIno # NoIno
    /\ readerIno = paths[kStatePath]
    /\ pc = "ws_write"
    /\ ~Complete(inode[paths[kStateTmpPath]])

\* The phase of a command type in the character-creation order.
PhaseRank(type) ==
    CASE type = "set_special" -> 1
      [] type = "select_traits" -> 2
      [] type = "tag_skills" -> 3
      [] type = "set_name" -> 4
      [] type = "finish_character_creation" -> 5
      [] OTHER -> 6

\* C3: the handlers of one tick run in batch order, except that the priority
\* phase types run first, in phase order, before every other command.
C3_PriorityPhasesFirst ==
    \A i, j \in 1..Len(tickLog) :
        i < j => \/ PhaseRank(tickLog[i][2]) < PhaseRank(tickLog[j][2])
                 \/ /\ PhaseRank(tickLog[i][2]) = PhaseRank(tickLog[j][2])
                    /\ tickLog[i][1] < tickLog[j][1]

\* C4: a batch that is malformed JSON or has no array "commands" is dropped
\* whole: no handler runs, the deferred queues, the failure counters and the
\* status overlay stay as they are, and the tick goes on to writeState.
C4_BadBatchDropped ==
    [][(pc \in {"read", "removed"} /\ content.body.kind # "ok" /\ restarts' = restarts)
        => /\ UNCHANGED <<gCommandFailureCounts, gAgentStatusOverlayActive,
                          gAgentLastCommandDebug, moveVars, gPendingAttacks>>
           /\ tickLog' = <<>>
           /\ pc' \in {"read", "removed", "ws_open"}]_vars

C4_Witness ==
    /\ pc = "ws_open"
    /\ batchDropped
    /\ tickLog = <<>>
    /\ gAgentStatusOverlayActive
    /\ gAgentLastCommandDebug = "set_status: text"

\* A step of the tick's queue service (MoveService or AtkService).
QueueServiceStep == phase = "commands" /\ phase' = "engine"

\* C5: when agentProcessQueuedMovement finds waypoints queued and the
\* elevation or the map is not the one recorded with the queue, or combat is
\* active, the whole queue is cleared in that call, no waypoint is issued and
\* the queue position is not advanced.
C5_QueueInvalidatedWhole ==
    [][(/\ QueueServiceStep
        /\ lastOp' = "service_movement"
        /\ agentGetMovementWaypointsRemaining > 0
        /\ \/ dudeElevation # gMoveElevation
           \/ curMap # gMoveMapIndex
           \/ inCombat)
        => /\ agentGetMovementWaypointsRemaining' = 0
           /\ issued' = <<>>
           /\ gMoveWaypointIndex' = gMoveWaypointIndex
           /\ animBusy' = animBusy]_vars

C5_Witness ==
    /\ lastOp = "service_movement"
    /\ svcOutcome = "aborted_map"
    /\ curMap # gMoveMapIndex
    /\ dudeElevation = gMoveElevation
    /\ gMoveWaypointIndex >= 1
    /\ gMoveWaypointCount = 0

IsSuffix(s, t) == \E k \in 0..Len(t) : s = SubSeq(t, k + 1, Len(t))

\* C6: once the pending attack queue was discarded it stays empty until an
\* attack command is handled, and no step other than handleAttack adds an
\* entry: the queue after such a step is a tail of the queue before it.
C6_NoResurrection ==
    /\ [](clearedSince => getPendingAttackCount = 0)
    /\ [][lastOp' # "attack" => IsSuffix(gPendingAttacks', gPendingAttacks)]_vars

C6_Witness ==
    /\ clearedSince
    /\ lastOp = "service_attacks"
    /\ atkOutcome = "empty"
    /\ inCombat
    /\ ~animBusy
    /\ ap > 0

\* C7: queued attacks are executed first in, first out, at most one per tick,
\* and only while combat is active, the actor is not mid-animation and its
\* action points are positive.
C7_FifoOnePerTick ==
    /\ [](queuedExecThisTick <= 1)
    /\ [][(QueueServiceStep /\ executed' # <<>>)
           => /\ executed' = <<Head(gPendingAttacks)>>
              /\ gPendingAttacks' = Tail(gPendingAttacks)
              /\ inCombat
              /\ ~animBusy
              /\ ap > 0]_vars

C7_Witness ==
    /\ lastOp = "service_attacks"
    /\ Len(executed) = 1
    /\ gPendingAttacks # <<>>
    /\ executed[1].targetId # gPendingAttacks[1].targetId

\* The front entry's target is resolved and alive.
FrontTargetAlive == objState[gPendingAttacks[1].targetId] = "alive"

\* C8 (as stated): servicing a non-empty queue discards all of it if combat
\* ended, action points are <= 0 or the front target is unresolved or dead;
\* if only the animation check fails, nothing runs and the queue is kept.
C8_DiscardOnAnyFailure ==
    [][(QueueServiceStep /\ gPendingAttacks # <<>>)
        => /\ (~inCombat \/ ap <= 0 \/ ~FrontTargetAlive) => gPendingAttacks' = <<>>
           /\ (inCombat /\ ap > 0 /\ FrontTargetAlive /\ animBusy)
                 => (gPendingAttacks' = gPendingAttacks /\ executed' = <<>>)]_vars

\* C8 (amended): servicing a non-empty queue discards all of it if combat
\* ended, or if the actor is not mid-animation and action points are <= 0 or
\* the front target is unresolved or dead; whenever combat is active and the
\* actor is mid-animation, nothing runs and the queue is kept.
C8_DiscardUnlessBusy ==
    [][(QueueServiceStep /\ gPendingAttacks # <<>>)
        => /\ (~inCombat \/ (~animBusy /\ (ap <= 0 \/ ~FrontTargetAlive)))
                 => (gPendingAttacks' = <<>> /\ executed' = <<>>)
           /\ (inCombat /\ animBusy)
                 => (gPendingAttacks' = gPendingAttacks /\ executed' = <<>>)]_vars

C8_Witness ==
    /\ lastOp = "service_attacks"
    /\ atkOutcome = "busy"
    /\ inCombat
    /\ ap = 0
    /\ gPendingAttacks # <<>>

\* A move command with a valid tile, outside combat, with the actor idle.
AdmissibleMove ==
    /\ lastOp = "move_to"
    /\ lastCmd.hasTile
    /\ ~lastCmd.combat
    /\ ~lastCmd.busy

CeilDiv(a, b) == (a + b - 1) \div b

\* C9: after an admissible move_to/run_to whose path is longer than the
\* segment cap the result is Ok, a queue of ceil(pathLen / 16) waypoints was
\* created and the first segment was issued by the handler.
C9_LongPathQueued ==
    (AdmissibleMove /\ lastCmd.pathLen > 16)
        => /\ lastStatus = "Ok"
           /\ lastCmd.created = CeilDiv(lastCmd.pathLen, 16)
           /\ issued = << [tile |-> gMoveWaypoints[0], run |-> lastCmd.run] >>

\* C10 (as stated): after an admissible move_to/run_to whose path length is
\* non-zero and below the segment cap the result is Ok, no waypoints remain
\* queued and exactly one move to the destination was registered.
C10_ShortPathAlwaysOk ==
    (AdmissibleMove /\ lastCmd.pathLen > 0 /\ lastCmd.pathLen < 16)
        => /\ lastStatus = "Ok"
           /\ agentGetMovementWaypointsRemaining = 0
           /\ issued = << [tile |-> lastCmd.tile, run |-> lastCmd.run] >>

\* C10 (amended): after such a command no waypoints remain queued; if the
\* engine accepted the registration the result is Ok and exactly one move to
\* the destination was registered, otherwise the result is Failed and no move
\* was registered.
C10_ShortPathSingleMove ==
    (AdmissibleMove /\ lastCmd.pathLen > 0 /\ lastCmd.pathLen < 16)
        => /\ agentGetMovementWaypointsRemaining = 0
           /\ IF lastCmd.regOk
              THEN /\ lastStatus = "Ok"
                   /\ issued = << [tile |-> lastCmd.tile, run |-> lastCmd.run] >>
              ELSE /\ lastStatus = "Failed"
                   /\ issued = <<>>

C10_Witness ==
    /\ AdmissibleMove
    /\ lastCmd.pathLen = 15
    /\ lastCmd.regOk
    /\ lastStatus = "Ok"
    /\ gMoveWaypointIndex >= 1

\* A step in which the dispatcher handed a move_to/run_to with a "tile" to
\* handleMoveTo.
MoveCmdStep == cmdIdx' = cmdIdx + 1 /\ lastOp' = "move_to" /\ lastCmd'.hasTile

\* C11: a move_to/run_to handled while waypoints are queued cancels that queue
\* (what is queued afterwards, if anything, is the queue this command built)
\* and starts the movement to the new destination in the same call.
C11_CancelAndReplace ==
    [][(MoveCmdStep /\ agentGetMovementWaypointsRemaining > 0)
        => /\ \/ agentGetMovementWaypointsRemaining' = 0
              \/ /\ lastCmd'.created > 0
                 /\ gMoveWaypointCount' = lastCmd'.created
                 /\ gMoveWaypointIndex' = 1
           /\ issued' # <<>>]_vars

\* The part of C11 that the handler keeps: outside combat the old queue is
\* always cancelled.
C11_OldQueueCancelled ==
    [][(MoveCmdStep /\ agentGetMovementWaypointsRemaining > 0 /\ ~inCombat)
        => \/ agentGetMovementWaypointsRemaining' = 0
           \/ /\ lastCmd'.created > 0
              /\ gMoveWaypointCount' = lastCmd'.created
              /\ gMoveWaypointIndex' = 1]_vars

\* A step in which the dispatcher handed an attack command to handleAttack.
AtkCmdStep == cmdIdx' = cmdIdx + 1 /\ lastOp' = "attack"

\* The attack command passed the argument check, the combat check and the
\* feasibility check (target found, _combat_check_bad_shot says OK).
Feasible(a) == a.hasTarget /\ a.combat /\ a.found /\ ~a.badShot

\* C12: a feasible attack command with count n handled while the actor is
\* mid-animation appends exactly n entries for its target to the pending
\* attack queue, executes nothing in the handler and returns Blocked; a count
\* of 1..10 is taken as given.
C12_BusyQueuesAll ==
    /\ [](\A n \in 1..kMaxAttackCount : ClampCount(TRUE, n) = n)
    /\ [][(AtkCmdStep /\ Feasible(lastAtk') /\ animBusy)
           => /\ lastStatus' = "Blocked"
              /\ executed' = <<>>
              /\ Len(gPendingAttacks') = Len(gPendingAttacks) + lastAtk'.count
              /\ SubSeq(gPendingAttacks', 1, Len(gPendingAttacks)) = gPendingAttacks
              /\ \A i \in (Len(gPendingAttacks) + 1)..Len(gPendingAttacks') :
                    gPendingAttacks'[i] = gPendingAttacks'[Len(gPendingAttacks')]
              /\ UNCHANGED <<ap, animBusy, objState>>]_vars

C12_Witness ==
    /\ lastOp = "attack"
    /\ Feasible(lastAtk)
    /\ lastAtk.busy
    /\ lastAtk.count = 3
    /\ lastAtk.before >= 1
    /\ lastStatus = "Blocked"
    /\ Len(gPendingAttacks) = lastAtk.before + 3

\* C13: an attack command whose target is not found or whose shot
\* _combat_check_bad_shot rejects returns Failed in the same call, executes
\* nothing and leaves the pending attack queue as it was.
C13_InfeasibleNeverQueued ==
    [][(AtkCmdStep /\ lastAtk'.hasTarget /\ lastAtk'.combat
            /\ (~lastAtk'.found \/ lastAtk'.badShot))
        => /\ lastStatus' = "Failed"
           /\ executed' = <<>>
           /\ gPendingAttacks' = gPendingAttacks
           /\ UNCHANGED <<ap, animBusy>>]_vars

C13_Witness ==
    /\ lastOp = "attack"
    /\ lastAtk.hasTarget
    /\ lastAtk.combat
    /\ lastAtk.found
    /\ lastAtk.badShot
    /\ lastAtk.busy
    /\ lastStatus = "Failed"
    /\ gPendingAttacks # <<>>

\* What the state document reports for a type: the counter, 0 when the map
\* has no entry for it.
FailureCount(counts, type) == IF type \in DOMAIN counts THEN counts[type] ELSE 0

\* The command types the batches of the model name.
BatchTypes == {"set_name", "set_status", "bogus"}

\* A step of the dispatch loop that ran a handler and logged its result.
CommandDispatched == pc = "dispatch" /\ Len(tickLog') = Len(tickLog) + 1

\* C14: every dispatched command with a failure-classified result adds one to
\* the counter of its own type and every other result sets that counter to 0,
\* so k failures in a row read k; the counters of all other types stay as
\* they are, and no other step of a running process changes a counter.
C14_FailureCounters ==
    /\ [][CommandDispatched
           => LET type == tickLog'[Len(tickLog')][2]
                  status == tickLog'[Len(tickLog')][3]
              IN  /\ FailureCount(gCommandFailureCounts', type) =
                        (IF agentCommandStatusIsFailure(status)
                         THEN FailureCount(gCommandFailureCounts, type) + 1
                         ELSE 0)
                  /\ \A t \in BatchTypes \ {type} :
                        FailureCount(gCommandFailureCounts', t) =
                            FailureCount(gCommandFailureCounts, t)]_vars
    /\ [][(~CommandDispatched /\ restarts' = restarts)
           => gCommandFailureCounts' = gCommandFailureCounts]_vars

C14_ResetReached ==
    /\ pc = "dispatch"
    /\ Len(tickLog) = 2
    /\ tickLog[1][2] = "set_name"
    /\ tickLog[1][3] = "BadArgs"
    /\ tickLog[2][2] = "set_name"
    /\ tickLog[2][3] = "Ok"
    /\ FailureCount(gCommandFailureCounts, "set_name") = 0
    /\ FailureCount(gCommandFailureCounts, "set_status") = 1

C14_Witness ==
    /\ FailureCount(gCommandFailureCounts, "set_name") = 3
    /\ FailureCount(gCommandFailureCounts, "set_status") = 1

C20_NoFaultEscapes == pc # "escaped"

\* C18: a command that returns Blocked leaves nothing behind that the bridge
\* carries out later: the handler executed nothing and the pending attack
\* queue is as it was before the command.
C18_BlockedLeavesNothing ==
    [][(AtkCmdStep /\ lastStatus' = "Blocked")
        => /\ executed' = <<>>
           /\ gPendingAttacks' = gPendingAttacks]_vars

\* The same for the waypoint queue: a move_to/run_to that returns Blocked
\* leaves the queue as it was.
C18_BlockedMoveKeepsQueue ==
    [][(MoveCmdStep /\ lastStatus' = "Blocked") => UNCHANGED moveVars]_vars

\* A step in which the dispatcher called one of the item, loot, teleport or
\* world map handlers.
HandlerStep == lastCall = NoCall /\ lastCall' # NoCall

\* C16: a handler that returns BadArgs has changed nothing before: the
\* simulation state after the call is the state before it.
C16_BadArgsBeforeMutation ==
    [][(HandlerStep /\ lastCall'.status = "BadArgs")
        => /\ world' = world
           /\ dudeElevation' = dudeElevation]_vars

\* The part of C16 about move_to/run_to: without "tile" the result is BadArgs
\* and the waypoint queue is left as it is.
C16_MoveBadArgsKeepsQueue ==
    [][(cmdIdx' = cmdIdx + 1 /\ lastOp' = "move_to" /\ ~lastCmd'.hasTile)
        => /\ lastStatus' = "BadArgs"
           /\ UNCHANGED moveVars
           /\ issued' = <<>>]_vars

\* C17: a handler called with a required argument missing or of the wrong
\* JSON type returns BadArgs, whatever the simulation state is.
C17_BadArgsWhateverState ==
    [][(HandlerStep /\ ~lastCall'.argsOk) => lastCall'.status = "BadArgs"]_vars

\* There is nothing to drop, to unequip or to close for the command.
NothingToDo(type, w) ==
    \/ type = "drop_item" /\ ~w.carried
    \/ type = "unequip_item" /\ ~w.rightHand
    \/ type = "loot_close" /\ ~w.lootTarget

\* C19: drop_item for an item that is not carried, unequip_item for an empty
\* hand and loot_close without a loot screen return NoOp and change nothing.
C19_NothingToDoIsNoOp ==
    [][(HandlerStep /\ lastCall'.argsOk /\ NothingToDo(lastCall'.type, world))
        => /\ lastCall'.status = "NoOp"
           /\ world' = world]_vars

\* The commands behind the test-mode gate.
GatedTypes ==
    {"teleport", "map_transition", "open_door", "give_item", "force_end_combat",
     "detonate_at", "nudge"}

\* C21 as stated: while gAgentTestMode is false every gated command returns
\* Blocked and changes no simulation state, and set_test_mode with "enabled"
\* absent, false or not a boolean turns the gate off.
C21_GateAlwaysBlocks ==
    [][/\ (HandlerStep /\ lastCall'.type \in GatedTypes /\ ~world.testMode)
          => /\ lastCall'.status = "Blocked"
             /\ world' = world
             /\ dudeElevation' = dudeElevation
       /\ (HandlerStep /\ lastCall'.type = "set_test_mode" /\ lastCall'.arg # "true")
          => ~world'.testMode]_vars

\* C21, amended: while gAgentTestMode is false no gated command changes the
\* simulation state; it returns Blocked when its required arguments are
\* present, and Blocked or BadArgs when they are not. set_test_mode turns the
\* gate on for a boolean true only, off for everything else.
C21_GateBlocksCheats ==
    [][/\ (HandlerStep /\ lastCall'.type \in GatedTypes /\ ~world.testMode)
          => /\ lastCall'.status \in {"Blocked", "BadArgs"}
             /\ lastCall'.argsOk => lastCall'.status = "Blocked"
             /\ world' = world
             /\ dudeElevation' = dudeElevation
       /\ (HandlerStep /\ lastCall'.type = "set_test_mode")
          => world'.testMode = (lastCall'.arg = "true")]_vars

\* The gate was on (an explosion was set off), a set_test_mode has turned it
\* off again, and a nudge has been blocked since.
C21_Witness ==
    /\ lastCall.type = "nudge"
    /\ lastCall.status = "Blocked"
    /\ world.exploded
    /\ ~world.testMode

\* The dispatch loop handles the element at cmdIdx, whose type is a string.
DispatchStep ==
    /\ pc = "dispatch"
    /\ cmdIdx' = cmdIdx + 1
    /\ content.body.cmds[cmdIdx] # NoType

\* C22: once a command of a type other than set_status and clear_status has
\* been dispatched the status overlay is inactive, whether the command
\* succeeded, failed or was unknown; a set_status leaves an active overlay
\* active (it replaces the text at most).
C22_OverlayAutoCleared ==
    [][DispatchStep
        => /\ content.body.cmds[cmdIdx] \notin {"set_status", "clear_status"}
              => ~gAgentStatusOverlayActive'
           /\ (content.body.cmds[cmdIdx] = "set_status" /\ gAgentStatusOverlayActive)
              => gAgentStatusOverlayActive']_vars

\* A set_status has shown the overlay and the next command of the batch, a
\* set_name that failed, has cleared it.
C22_Witness ==
    /\ tickLog = << <<1, "set_status", "Ok">>, <<2, "set_name", "BadArgs">> >>
    /\ ~gAgentStatusOverlayActive

\* A tick whose state write included the map section.
MapSectionWritten == gAgentTick' = gAgentTick + 1 /\ lastWrite'.section

\* C23: outside the player's turn and without a refresh signal since the
\* last enumeration, an enumeration comes at least kObjectEnumInterval ticks
\* after the one before it; a write of the map section that does not
\* enumerate carries the cached result and leaves the cache as it is.
C23_EnumerationThrottled ==
    [][MapSectionWritten
        => /\ (/\ lastWrite'.enumerated
               /\ ~lastWrite'.playerTurn
               /\ ~lastWrite'.forced
               /\ ~enumHist.forcedSince
               /\ enumHist.at # 0)
              => gAgentTick' - enumHist.at >= kObjectEnumInterval
           /\ ~lastWrite'.enumerated
              => /\ lastWrite'.objects = gCachedObjects
                 /\ gCachedObjects' = gCachedObjects]_vars

\* Two throttled enumerations ten ticks apart.
C23_Witness ==
    /\ lastWrite.enumerated
    /\ ~lastWrite.playerTurn
    /\ ~lastWrite.forced
    /\ lastWrite.prevAt = 10
    /\ lastWrite.tick = 20

\* The cached result of the enumeration of tick 10 is written again nine
\* ticks later.
C23_CacheReused ==
    /\ lastWrite.section
    /\ ~lastWrite.enumerated
    /\ lastWrite.objects = "objects_b"
    /\ lastWrite.tick = 19
    /\ enumHist.at = 10

\* C24: after agentForceObjectRefresh the next write of the map section
\* enumerates afresh, at whatever tick, and the throttle restarts there.
C24_RefreshEnumeratesNext ==
    [][(MapSectionWritten /\ lastWrite'.forced)
        => /\ lastWrite'.enumerated
           /\ gLastObjectEnumTick' = gAgentTick']_vars

\* C25: on the player's turn in combat every write of the map section
\* enumerates afresh, however recent the last enumeration is.
C25_PlayerTurnAlwaysFresh ==
    [][(MapSectionWritten /\ lastWrite'.playerTurn)
        => /\ lastWrite'.enumerated
           /\ lastWrite'.objects \in ObjectSets
           /\ gCachedObjects' = lastWrite'.objects
           /\ gLastObjectEnumTick' = gAgentTick']_vars

\* An enumeration on the player's turn one tick after the previous one.
C25_Witness ==
    /\ lastWrite.playerTurn
    /\ lastWrite.enumerated
    /\ lastWrite.prevAt # 0
    /\ lastWrite.prevAt = lastWrite.tick - 1

\* The tick services the deferred dialogue select.
DlgServiceStep == dialogue.pos \in {"commands", "service"} /\ dialogue'.pos = "engine"

C26_Discarded ==
    /\ selection.fate = "discarded"
    /\ selection.commits = 0
    /\ dialogue.active
    /\ gAgentTick > selection.doneAt
    /\ gAgentPendingDialogueSelect = NoPending

\* The contexts of the overlay screens.
OverlayContexts ==
    {"gameplay_inventory", "gameplay_loot", "gameplay_barter", "gameplay_worldmap"}

\* C27: the detected context follows the precedence: the death screen over
\* the movie, the movie over the character editor override, that over the
\* gameplay sub-states, and within gameplay an overlay screen over dialogue
\* over combat over exploration.
C27_ContextPrecedence ==
    detected.context # "none" =>
        LET f == detected.flags
            c == detected.context
            setup == f.editor \/ f.gAgentContext = AGENT_CONTEXT_CHAR_EDITOR
            gameplay == /\ ~f.deathScreen /\ ~f.movie /\ ~setup
                        /\ f.gAgentContext = AGENT_CONTEXT_GAMEPLAY
        IN  /\ f.deathScreen => c = "death_screen"
            /\ (~f.deathScreen /\ f.movie) => c = "movie"
            /\ (~f.deathScreen /\ ~f.movie /\ setup) => c = "character_editor"
            /\ (gameplay /\ f.overlay) => c \in OverlayContexts
            /\ (gameplay /\ ~f.overlay /\ f.dialog) => c = "gameplay_dialogue"
            /\ (gameplay /\ ~f.overlay /\ ~f.dialog /\ f.combat) => c = "gameplay_combat"
            /\ (gameplay /\ ~f.overlay /\ ~f.dialog /\ ~f.combat)
               => c = "gameplay_exploration"

\* The members every snapshot is to contain.
AlwaysPresent == {"tick", "timestamp_ms", "game_mode_flags", "context", "last_command_debug"}

\* C28: every snapshot written contains the tick counter, the timestamp,
\* the decoded game-mode flags, the context and the outcome description of
\* the last command batch, also before any command was processed.
C28_AlwaysPresentMembers ==
    snapshot.written => AlwaysPresent \subseteq snapshot.members

\* The tick wrote a snapshot.
SnapStep == gAgentTick' = gAgentTick + 1 /\ snapshot'.opened

SnapshotWritten == pc = "ws_open" /\ restarts' = restarts /\ wsDoc' # wsDoc

\* C30: the tick counter moves by one, at the start of a tick only (a
\* restarted process counts from 0 again); a snapshot is written after the
\* batch of the tick has been processed to its end, carries the current
\* tick and the outcome the batch left behind, and its tick is above the
\* tick of the snapshot it replaces.
C30_TickThenBatchThenSnapshot ==
    [][/\ gAgentTick' # gAgentTick
          => \/ pc = "idle" /\ gAgentTick' = gAgentTick + 1 /\ pc' \in {"read", "ws_open"}
             \/ restarts' = restarts + 1 /\ gAgentTick' = 0
       /\ SnapshotWritten
          => /\ gAgentTick' = gAgentTick
             /\ content = NoContent
             /\ paths'[kStatePath] # NoIno
             /\ inode'[paths'[kStatePath]].doc.tick = gAgentTick
             /\ inode'[paths'[kStatePath]].doc.debug = gAgentLastCommandDebug
             /\ (tickLog # <<>> /\ tickLog[Len(tickLog)][3] = "UnknownCommand")
                => inode'[paths'[kStatePath]].doc.debug = "unknown_cmd"
             /\ paths[kStatePath] # NoIno
                => inode[paths[kStatePath]].doc.tick < gAgentTick]_vars

\* The snapshot of tick 2 is on disk: it carries tick 2 and the outcome of
\* the batch that tick 2 consumed, and replaced the snapshot of tick 1.
C30_Witness ==
    /\ pc = "idle"
    /\ gAgentTick = 2
    /\ restarts = 0
    /\ Len(tickLog) = 2
    /\ paths[kStatePath] # NoIno
    /\ inode[paths[kStatePath]].doc = [tick |-> 2, debug |-> gAgentLastCommandDebug]
    /\ gAgentLastCommandDebug # ""
    /\ \E i \in Inodes : inode[i].doc.tick = 1

\* ------------------------------------------------------------------ C31

\* The elements of a batch that carry a string "type", in array order, and
\* the types of the handler calls tracked and logged in the current tick.
StringTyped(cmds) == SelectSeq(cmds, LAMBDA t : t # NoType)
LoggedTypes(log) == [i \in 1..Len(log) |-> log[i][2]]

\* The dispatch loop of the current batch is left (processCommands returns,
\* or control leaves it in another way).
DispatchLeft == pc = "dispatch" /\ pc' # "dispatch" /\ restarts' = restarts

\* C31: within one batch every element with a string "type" is dispatched
\* exactly once, with one counter update and one log record each, in array
\* order, whatever the results of the earlier commands were; elements
\* without a string "type" are skipped. So when the dispatch loop is left,
\* the tracked and logged calls of the tick are exactly the string-typed
\* elements of the batch, in order.
C31_EveryElementDispatchedOnce ==
    [][DispatchLeft => LoggedTypes(tickLog) = StringTyped(content.body.cmds)]_vars

\* ------------------------------------------------------------------ C32

\* A call of agentProcessQueuedMovement from the tick that finds waypoints
\* queued, on the map and elevation recorded with them, outside combat.
ServiceOfLiveQueue ==
    /\ QueueServiceStep
    /\ lastOp' = "service_movement"
    /\ agentGetMovementWaypointsRemaining > 0
    /\ dudeElevation = gMoveElevation
    /\ curMap = gMoveMapIndex
    /\ ~inCombat

\* C32: while a waypoint queue is in flight and not invalidated, a service
\* call made while the actor is mid-animation changes nothing; a call made
\* while the actor is idle either issues exactly the waypoint at the queue
\* position and advances the position by one (so the stored waypoints go out
\* in creation order, each at most once, one per call), or, when the engine
\* refuses the registration, issues nothing and drops the rest of the queue.
\* The stored waypoints themselves are never rewritten by a service call.
C32_WaypointsInOrder ==
    [][ServiceOfLiveQueue
        => /\ gMoveWaypoints' = gMoveWaypoints
           /\ IF animBusy
              THEN /\ issued' = <<>>
                   /\ UNCHANGED moveVars
              ELSE \/ /\ issued' = << [tile |-> gMoveWaypoints[gMoveWaypointIndex],
                                         run |-> gMoveIsRunning] >>
                      /\ gMoveWaypointIndex' = gMoveWaypointIndex + 1
                      /\ agentGetMovementWaypointsRemaining'
                            = agentGetMovementWaypointsRemaining - 1
                      /\ svcOutcome' = "issued"
                   \/ /\ issued' = <<>>
                      /\ svcOutcome' \in {"reg_begin_failed", "register_failed"}
                      /\ agentGetMovementWaypointsRemaining' = 0]_vars

\* The second waypoint of a three-waypoint queue went out in a service call,
\* after the first one went out in the handler.
C32_Witness ==
    /\ lastOp = "service_movement"
    /\ svcOutcome = "issued"
    /\ gMoveWaypointIndex = 2
    /\ gMoveWaypointCount = 3
    /\ issued = << [tile |-> gMoveWaypoints[1], run |-> gMoveIsRunning] >>

\* ------------------------------------------------------------------ C33

\* The dispatcher handed a select_dialogue command to handleSelectDialogue.
SelectCmdStep == dialogue.pos = "commands" /\ dialogue'.pos = "service"

\* C33: select_dialogue writes the delayed-selection slot only when it is
\* accepted. With the dialogue active and 0 <= index < option count the
\* result is Ok and the slot becomes (index, current tick), whatever it held
\* before; without an integer index the result is BadArgs, with an index and
\* no active dialogue Blocked, with an index out of range BadArgs, and in
\* these cases the slot and its recorded tick are as they were.
C33_SlotWrittenOnlyWhenAccepted ==
    [][SelectCmdStep
        => \E i \in {selection'.arg} :
             IF i # NoIndex /\ dialogue.active /\ 0 <= i /\ i < OptionCount
             THEN /\ selection'.status = "Ok"
                  /\ gAgentPendingDialogueSelect' = i
                  /\ gAgentDialogueSelectTick' = gAgentTick
             ELSE /\ selection'.status =
                        (IF i # NoIndex /\ ~dialogue.active THEN "Blocked" ELSE "BadArgs")
                  /\ gAgentPendingDialogueSelect' = gAgentPendingDialogueSelect
                  /\ gAgentDialogueSelectTick' = gAgentDialogueSelectTick]_vars

\* A select of option 1 was accepted while the select of option 0 of an
\* earlier tick was still pending: the slot holds the later one only.
C33_Witness ==
    /\ selection.status = "Ok"
    /\ selection.before = 0
    /\ selection.arg = 1
    /\ gAgentPendingDialogueSelect = 1
    /\ gAgentDialogueSelectTick = gAgentTick
    /\ gAgentTick > 1

\* A select out of range was rejected while another one was pending, and
\* the pending one is still in the slot with the tick it was recorded in.
C33_RejectedKeepsPending ==
    /\ selection.status = "BadArgs"
    /\ selection.arg = OptionCount
    /\ selection.before = 0
    /\ gAgentPendingDialogueSelect = 0
    /\ gAgentDialogueSelectTick < gAgentTick

\* ------------------------------------------------------------------ C34

\* remove(kCmdPath) of processCommands unlinks a file.
CmdFileDeleted == pc = "read" /\ pc' = "removed" /\ cmdFile # NoFile /\ cmdFile' = NoFile

\* C34: no batch the agent published is deleted by processCommands without
\* its bytes having been read, however the agent's atomic replace of the
\* command file interleaves with the bridge's read and delete.
C34_NoUnreadBatchDeleted == [][CmdFileDeleted => cmdFile.id \in consumed]_vars

\* ------------------------------------------------------------------ C35

\* C35: a waypoint queue built by move_to/run_to ends at the requested
\* destination tile, whatever the length of the path is, and each waypoint
\* lies at most one segment cap along the path from the one before it (the
\* first one from the tile the actor stands on).
C35_QueueEndsAtDestination ==
    (lastOp = "move_to" /\ lastCmd.created > 0)
        => /\ gMoveWaypoints[lastCmd.created - 1] = lastCmd.tile
           /\ gMoveWaypoints[0] - (lastCmd.tile - lastCmd.pathLen) \in 1..kMaxSegment
           /\ \A k \in 1..(lastCmd.created - 1) :
                 gMoveWaypoints[k] - gMoveWaypoints[k - 1] \in 1..kMaxSegment

\* ------------------------------------------------------------------ C36

\* C36: the waypoint queue stays inside its array. The position is never
\* negative and the count never above 39; the slots written by the build
\* loop (0 .. created - 1) and the slot the next service call reads (the
\* position, while waypoints remain) are slots of the 40-slot array; the
\* number of remaining waypoints is between 0 and 39 and is count - index
\* while a queue is in flight.
C36_WaypointQueueBounds ==
    /\ DOMAIN gMoveWaypoints = 0..(kWaypointSlots - 1)
    /\ gMoveWaypointIndex >= 0
    /\ gMoveWaypointCount \in 0..kMaxWaypoints
    /\ lastCmd.created \in 0..kMaxWaypoints
    /\ \A k \in 0..(lastCmd.created - 1) : k \in DOMAIN gMoveWaypoints
    /\ agentGetMovementWaypointsRemaining \in 0..kMaxWaypoints
    /\ agentGetMovementWaypointsRemaining > 0
          => /\ gMoveWaypointIndex \in DOMAIN gMoveWaypoints
             /\ agentGetMovementWaypointsRemaining = gMoveWaypointCount - gMoveWaypointIndex

\* The longest queue the build loop makes is in flight after its first
\* waypoint went out.
C36_Witness ==
    /\ gMoveWaypointCount = kMaxWaypoints
    /\ gMoveWaypointIndex = 1
    /\ agentGetMovementWaypointsRemaining = kMaxWaypoints - 1
    /\ lastCmd.pathLen > kMaxWaypoints * kMaxSegment

\* ------------------------------------------------------------------ C37

\* C37: the pending attack queue never holds more than 10 entries, whatever
\* attack commands the agent sends.
C37_QueueAtMostTen == getPendingAttackCount <= kMaxAttackCount

\* ------------------------------------------------------------------ C38

\* C38: an attack command that returns Failed adds no entries to the pending
\* attack queue.
C38_FailedAttackQueuesNothing ==
    [][(AtkCmdStep /\ lastStatus' = "Failed") => gPendingAttacks' = gPendingAttacks]_vars

\* The other half of C38: a move_to/run_to that returns Ok has registered at
\* least one move with the engine in the same call.
C38_OkMoveHasStarted ==
    [][(MoveCmdStep /\ lastStatus' = "Ok") => issued' # <<>>]_vars

\* ------------------------------------------------------------------ C39

\* Queue positions of the waypoints that are issued by service calls (the
\* first waypoint goes out in the handler).
ServicedPositions ==
    {k \in 1..(kMaxWaypoints - 1) : \E n \in LivePathLens : k < CeilDiv(n, kMaxSegment)}

QueueFed == lastOp = "attack" /\ lastAtk.before > 0

\* A queued attack is handed to _combat_attack as it leaves the queue, so no
\* entry is executed twice: the executed attack is the front entry and the
\* queue after the call is the rest.
ExecutedEntryLeavesQueue ==
    [][(QueueServiceStep /\ executed' # <<>>)
        => /\ executed' = << Head(gPendingAttacks) >>
           /\ gPendingAttacks' = Tail(gPendingAttacks)]_vars

\* C40 (as stated): with the queue serviced every tick and the actor idle
\* again and again, a non-empty pending attack queue eventually becomes
\* empty.
C40_QueueAlwaysDrains ==
    (getPendingAttackCount > 0) ~> (getPendingAttackCount = 0)

\* C40 (amended): the same, provided that from some tick on no attack command
\* arrives while attacks are pending; and every queued attack that is
\* executed leaves the queue in that call.
C40_QueueDrainsWhenNotFed ==
    /\ (<>[](~QueueFed)) => ((getPendingAttackCount > 0) ~> (getPendingAttackCount = 0))
    /\ ExecutedEntryLeavesQueue

\* The last of several queued attacks was executed by a service call of a
\* later tick than the one they were queued in.
C40_Witness ==
    /\ lastOp = "service_attacks"
    /\ atkOutcome = "executed"
    /\ executed # <<>>
    /\ gPendingAttacks = <<>>
    /\ lastAtk = NoAtk
    /\ queuedExecThisTick = 1
    /\ ap < MaxAP
    /\ ~QueueFed

====
